---- MODULE Spec2Model ----
(***************************************************************************)
(* Model of the flight-plan notification bot (src/main.py): the push       *)
(* monitor (flight_plan_monitor), the message pipeline                     *)
(* (process_websocket_message, process_flight_plan,                        *)
(* send_flight_plan_notification), the bounded dedup cache and the         *)
(* configuration commands.                                                 *)
(*                                                                         *)
(* Python strings are sequences of one-character strings.  A JSON / Python *)
(* scalar is a record [ty, s]: ty is its type ("str", "int", "null") and s *)
(* is what str() gives for it.  A dict is [ty |-> "dict", fields |-> f]    *)
(* with f a function from key names to values, a list is                   *)
(* [ty |-> "list", items |-> <<...>>].                                     *)
(***************************************************************************)
EXTENDS Integers, Sequences, FiniteSets, TLC

\* ------------------------------------------------------------------ bounds
MaxMsgs == 3
MaxCacheMsgs == 3
MaxLiveMsgs == 2
MaxLiveCmds == 1
MaxPayloadMsgs == 1
MaxCmds == 4
MaxConfigCmds == 2

\* ------------------------------------------------------- program constants
\* deque(maxlen=500)
DedupCapacity == 500
\* embed_color default (0x00ff00)
DefaultColor == 65280
\* len(callsign_prefix) < 2 is rejected
MinPrefixLen == 2
\* asyncio.sleep(10) when there is no configuration
NoConfigSleep == 10
\* asyncio.sleep(5) after ConnectionClosed and after any other exception
ReconnectSleep == 5
\* asyncio.sleep(30) after InvalidURI
InvalidUriSleep == 30

\* ------------------------------------------------------------ Python strings
\* The characters of the model are the printable ASCII characters, the
\* white-space characters, backspace and delete, Latin-1 from U+00A0 on and
\* the few characters beyond it that the program's texts and upper() need.
\* A character that a string of this module cannot hold or show (the backtick,
\* the control characters without an escape of their own, the no-break space,
\* the soft hyphen and every character beyond U+00FF) is the one-element
\* string of its escape, "\\uXXXX": "\\u2708" is the one character U+2708 and
\* "\\u00a0" the no-break space.

\* the characters c of the model with c.upper() != c
LowerLetters ==
  <<"a", "b", "c", "d", "e", "f", "g", "h", "i", "j", "k", "l", "m", "n",
    "o", "p", "q", "r", "s", "t", "u", "v", "w", "x", "y", "z", "µ", "ß",
    "à", "á", "â", "ã", "ä", "å", "æ", "ç", "è", "é", "ê", "ë", "ì", "í",
    "î", "ï", "ð", "ñ", "ò", "ó", "ô", "õ", "ö", "ø", "ù", "ú", "û", "ü",
    "ý", "þ", "ÿ">>

\* c.upper() for each of them, a string of one or two characters
UpperLetters ==
  <<<<"A">>, <<"B">>, <<"C">>, <<"D">>, <<"E">>, <<"F">>, <<"G">>, <<"H">>,
    <<"I">>, <<"J">>, <<"K">>, <<"L">>, <<"M">>, <<"N">>, <<"O">>, <<"P">>,
    <<"Q">>, <<"R">>, <<"S">>, <<"T">>, <<"U">>, <<"V">>, <<"W">>, <<"X">>,
    <<"Y">>, <<"Z">>, <<"\\u039c">>, <<"S", "S">>, <<"À">>, <<"Á">>,
    <<"Â">>, <<"Ã">>, <<"Ä">>, <<"Å">>, <<"Æ">>, <<"Ç">>, <<"È">>, <<"É">>,
    <<"Ê">>, <<"Ë">>, <<"Ì">>, <<"Í">>, <<"Î">>, <<"Ï">>, <<"Ð">>, <<"Ñ">>,
    <<"Ò">>, <<"Ó">>, <<"Ô">>, <<"Õ">>, <<"Ö">>, <<"Ø">>, <<"Ù">>, <<"Ú">>,
    <<"Û">>, <<"Ü">>, <<"Ý">>, <<"Þ">>, <<"\\u0178">>>>

\* c.upper() for a character c
UpperChar(c) ==
  IF \E i \in 1..Len(LowerLetters) : LowerLetters[i] = c
  THEN UpperLetters[CHOOSE i \in 1..Len(LowerLetters) : LowerLetters[i] = c]
  ELSE <<c>>

RECURSIVE upper(_)
upper(s) ==
  IF s = <<>> THEN <<>> ELSE UpperChar(Head(s)) \o upper(Tail(s))

\* the characters c of the model with c.isspace(), which strip() removes
Whitespace ==
  {"\t", "\n", "\\u000b", "\f", "\r", "\\u001c", "\\u001d", "\\u001e",
   "\\u001f", " ", "\\u0085", "\\u00a0"}

RECURSIVE lstrip(_)
lstrip(s) ==
  IF s # <<>> /\ Head(s) \in Whitespace THEN lstrip(Tail(s)) ELSE s

RECURSIVE rstrip(_)
rstrip(s) ==
  IF s # <<>> /\ s[Len(s)] \in Whitespace
  THEN rstrip(SubSeq(s, 1, Len(s) - 1)) ELSE s

\* chr(n) for the code points of the model's characters
Chr ==
  LET ascii ==
        <<" ", "!", "\"", "#", "$", "%", "&", "'", "(", ")", "*", "+", ",",
           "-", ".", "/", "0", "1", "2", "3", "4", "5", "6", "7", "8", "9",
           ":", ";", "<", "=", ">", "?", "@", "A", "B", "C", "D", "E", "F",
           "G", "H", "I", "J", "K", "L", "M", "N", "O", "P", "Q", "R", "S",
           "T", "U", "V", "W", "X", "Y", "Z", "[", "\\", "]", "^", "_",
           "\\u0060", "a", "b", "c", "d", "e", "f", "g", "h", "i", "j", "k",
           "l", "m", "n", "o", "p", "q", "r", "s", "t", "u", "v", "w", "x",
           "y", "z", "{", "|", "}", "~">>
      latin ==
        <<"\\u00a0", "¡", "¢", "£", "¤", "¥", "¦", "§", "¨", "©", "ª", "«", "¬",
           "\\u00ad", "®", "¯", "°", "±", "²", "³", "´", "µ", "¶", "·", "¸", "¹",
           "º", "»", "¼", "½", "¾", "¿", "À", "Á", "Â", "Ã", "Ä", "Å", "Æ",
           "Ç", "È", "É", "Ê", "Ë", "Ì", "Í", "Î", "Ï", "Ð", "Ñ", "Ò", "Ó",
           "Ô", "Õ", "Ö", "×", "Ø", "Ù", "Ú", "Û", "Ü", "Ý", "Þ", "ß", "à",
           "á", "â", "ã", "ä", "å", "æ", "ç", "è", "é", "ê", "ë", "ì", "í",
           "î", "ï", "ð", "ñ", "ò", "ó", "ô", "õ", "ö", "÷", "ø", "ù", "ú",
           "û", "ü", "ý", "þ", "ÿ">>
      other ==
        <<<<"\\u0008", 8>>, <<"\t", 9>>, <<"\n", 10>>, <<"\\u000b", 11>>, <<"\f", 12>>,
           <<"\r", 13>>, <<"\\u001c", 28>>, <<"\\u001d", 29>>, <<"\\u001e", 30>>, <<"\\u001f", 31>>,
           <<"\\u007f", 127>>, <<"\\u0085", 133>>, <<"\\u0178", 376>>,
           <<"\\u039c", 924>>, <<"\\u2708", 9992>>, <<"\\ufe0f", 65039>>>>
  IN  [n \in (32..126) \cup (160..255) \cup {other[i][2] : i \in 1..Len(other)} |->
         IF n \in 32..126 THEN ascii[n - 31]
         ELSE IF n \in 160..255 THEN latin[n - 159]
         ELSE other[CHOOSE i \in 1..Len(other) : other[i][2] = n][1]]

HexChars == <<"0","1","2","3","4","5","6","7","8","9","A","B","C","D","E","F">>

\* str.strip(); mutant: only the leading white space is removed
StripLeadingOnly(s) == lstrip(s)

strip(s) == rstrip(lstrip(s))

startswith(s, p) == Len(p) <= Len(s) /\ SubSeq(s, 1, Len(p)) = p

\* ------------------------------------------------------------- Python values
PyStr(s) == [ty |-> "str", s |-> s]
PyInt(digits) == [ty |-> "int", s |-> digits]
PyNone == [ty |-> "null", s |-> <<"N","o","n","e">>]
PyDict(f) == [ty |-> "dict", fields |-> f]
PyList(l) == [ty |-> "list", items |-> l]

\* bool(v)
Truthy(v) ==
  CASE v.ty = "str" -> v.s # <<>>
    [] v.ty = "int" -> v.s # <<"0">>
    [] v.ty = "null" -> FALSE
    [] v.ty = "list" -> v.items # <<>>
    [] v.ty = "dict" -> DOMAIN v.fields # {}

\* isinstance(v, dict) and k in v
HasKey(v, k) == v.ty = "dict" /\ k \in DOMAIN v.fields

\* d.get(k, default)
DictGet(d, k, default) == IF k \in DOMAIN d.fields THEN d.fields[k] ELSE default

\* f"{v}" for the scalars of the model
Format(v) == v.s

\* set(l)
Elements(l) == {l[i] : i \in 1..Len(l)}

\* ----------------------------------------------------------------- dedup key
Underscore == <<"_">>

\* f"{callsign}_{robloxName}_{departing}_{arriving}", absent fields as ''
FlightPlanId(flight_plan) ==
  Format(flight_plan.fields["callsign"]) \o Underscore
    \o Format(DictGet(flight_plan, "robloxName", PyStr(<<>>))) \o Underscore
    \o Format(DictGet(flight_plan, "departing", PyStr(<<>>))) \o Underscore
    \o Format(DictGet(flight_plan, "arriving", PyStr(<<>>)))

\* deque(maxlen=DedupCapacity).append(key): drops the oldest entry when full;
\* mutant: a deque without maxlen
DequeAppendUnbounded(cache, key) == Append(cache, key)

\* mutant: the append is not made here, right after the seen-check, but after
\* the awaited dispatch
DequeAppendAfterDispatch(cache, key) == cache

DequeAppend(cache, key) ==
  IF Len(cache) >= DedupCapacity
  THEN Append(Tail(cache), key)
  ELSE Append(cache, key)

\* the cache after "continue" for a key that is in it: nothing is written;
\* mutant: the key is moved to the newest position
SeenAgainRefreshed(cache, key) ==
  SelectSeq(cache, LAMBDA k : k # key) \o <<key>>

SeenAgain(cache, key) == cache

\* key in deque; mutant: only the newest entry is compared
InDequeNewestOnly(cache, key) == cache # <<>> /\ cache[Len(cache)] = key

InDeque(cache, key) == \E i \in 1..Len(cache) : cache[i] = key

\* ---------------------------------------------------------- payload unwrapping
WrapperKeys == <<"flightPlan", "data", "flight_plan">>

\* the for/break over the wrapper keys: only the first key present is looked at
RECURSIVE UnwrapKeys(_, _)
UnwrapKeys(flight_plan_data, keys) ==
  IF keys = <<>> THEN <<>>
  ELSE IF Head(keys) \in DOMAIN flight_plan_data.fields
       THEN LET data == flight_plan_data.fields[Head(keys)]
            IN  IF data.ty = "list" THEN data.items
                ELSE IF HasKey(data, "callsign") THEN <<data>>
                ELSE <<>>
       ELSE UnwrapKeys(flight_plan_data, Tail(keys))

\* flight_plans as computed at the top of process_flight_plan
Unwrap(flight_plan_data) ==
  IF flight_plan_data.ty = "list" THEN flight_plan_data.items
  ELSE IF flight_plan_data.ty = "dict"
       THEN IF "callsign" \in DOMAIN flight_plan_data.fields
            THEN <<flight_plan_data>>
            ELSE UnwrapKeys(flight_plan_data, WrapperKeys)
       ELSE <<>>

\* ------------------------------------------------------------ envelope checks
AllowedTypes == {<<"F","L","I","G","H","T","_","P","L","A","N">>,
                 <<"E","V","E","N","T","_","F","L","I","G","H","T","_","P","L","A","N">>}

\* not isinstance(message_data, dict) or 't' not in ... or 'd' not in ...
IsEnvelope(message_data) ==
  message_data.ty = "dict" /\ {"t", "d"} \subseteq DOMAIN message_data.fields

\* event_type in ['FLIGHT_PLAN', 'EVENT_FLIGHT_PLAN']
IsFlightPlanType(event_type) ==
  event_type.ty = "str" /\ event_type.s \in AllowedTypes

\* A number the program computes with (a colour) is a Python int, which has
\* no largest value: it is held as its sign and the hexadecimal digits of its
\* magnitude, the most significant first and none for 0.  IntValue(n) is the
\* Python int of the number n.
IntValue(n) ==
  LET digits[m \in Nat] == IF m = 0 THEN <<>> ELSE Append(digits[m \div 16], m % 16)
  IN  [ty |-> "int", neg |-> n < 0, digits |-> digits[IF n < 0 THEN -n ELSE n]]

\* sqlite3 binds the Python int v to an INTEGER column: the ints from -2^63 to
\* 2^63 - 1; for any other cursor.execute raises OverflowError
SqliteInteger(v) ==
  \/ Len(v.digits) < 16
  \/ /\ Len(v.digits) = 16
     /\ \/ v.digits[1] < 8
        \/ v.neg /\ v.digits = <<8>> \o [i \in 1..15 |-> 0]

\* ------------------------------------------------------- tenant configuration
\* Titles and URLs are Python strings; the default title starts with the
\* characters U+2708 and U+FE0F.
DefaultTitle ==
  PyStr(<<"\\u2708", "\\ufe0f", " ", "N", "e", "w", " ", "F", "l", "i", "g", "h",
          "t", " ", "P", "l", "a", "n", " ", "F", "i", "l", "e", "d">>)

\* An in-memory config dict.  The twelve appearance keys are present together
\* (after load_configurations or save_embed_configuration) or absent together
\* (a dict created by save_configuration): has_embed tells which.
NewConfig(channel_id, prefixes) ==
  [channel_id |-> channel_id, callsign_prefixes |-> prefixes, has_embed |-> FALSE,
   embed_color |-> IntValue(0), embed_title |-> PyNone,
   embed_thumbnail |-> PyNone, embed_image |-> PyNone,
   show_callsign |-> FALSE, show_pilot |-> FALSE, show_aircraft |-> FALSE,
   show_departure |-> FALSE, show_arrival |-> FALSE, show_flightlevel |-> FALSE,
   show_flightrules |-> FALSE, show_route |-> FALSE]

\* config.get(key, default) for an appearance key
CfgGet(config, key, default) ==
  IF config.has_embed THEN config[key] ELSE default

\* ------------------------------------------------------------ prefix matching
\* index of the first prefix, from position i on, that the callsign starts
\* with (case-insensitively), 0 when there is none; mutant: the last one
RECURSIVE LastMatch(_, _, _)
LastMatch(callsign, prefixes, i) ==
  IF i > Len(prefixes) THEN 0
  ELSE LET later == LastMatch(callsign, prefixes, i + 1)
       IN  IF later # 0 THEN later
           ELSE IF startswith(upper(callsign), upper(prefixes[i])) THEN i ELSE 0

RECURSIVE FirstMatch(_, _, _)
FirstMatch(callsign, prefixes, i) ==
  IF i > Len(prefixes) THEN 0
  ELSE IF startswith(upper(callsign), upper(prefixes[i])) THEN i
  ELSE FirstMatch(callsign, prefixes, i + 1)

\* matching_configs: one (guild_id, config, prefix) entry per matching tenant,
\* in the iteration order of the server_configs dict.  The entry's config is a
\* reference to the dict stored in server_configs, which the commands update
\* in place, so the entry carries the guild id and the config is looked up
\* through it when it is read.
RECURSIVE MatchingConfigs(_, _, _)
MatchingConfigs(callsign, order, configs) ==
  IF order = <<>> THEN <<>>
  ELSE LET guild_id == Head(order)
           prefixes == configs[guild_id].callsign_prefixes
           i == FirstMatch(callsign, prefixes, 1)
       IN  (IF i = 0 THEN <<>>
            ELSE <<[guild_id |-> guild_id, prefix |-> prefixes[i]]>>)
           \o MatchingConfigs(callsign, Tail(order), configs)

\* callsign.upper() raises AttributeError for a callsign that is not a string;
\* it is evaluated once some tenant has a prefix to compare with
UpperRaises(callsign, order, configs) ==
  callsign.ty # "str"
    /\ \E k \in 1..Len(order) : configs[order[k]].callsign_prefixes # <<>>

\* -------------------------------------------------------------------- rendering
Unknown == PyStr(<<"U","n","k","n","o","w","n">>)
NotAvailable == PyStr(<<"N","/","A">>)
Bold == <<"*","*">>
FL == <<"F","L">>

Field(name, value) == <<[name |-> name, value |-> value]>>

\* the pilot entry
PilotField(flight_plan, config) ==
  IF CfgGet(config, "show_pilot", TRUE)
  THEN Field("Pilot", Format(DictGet(flight_plan, "robloxName", Unknown)))
  ELSE <<>>

\* an entry guarded by "config.get(flag, True) and flight_plan.get(key)"
OptionalField(flight_plan, config, flag, key, name, lead) ==
  IF CfgGet(config, flag, TRUE) /\ Truthy(DictGet(flight_plan, key, PyNone))
  THEN Field(name, lead \o Format(flight_plan.fields[key]))
  ELSE <<>>

RouteField(flight_plan, config) ==
  IF CfgGet(config, "show_route", TRUE)
       /\ Truthy(DictGet(flight_plan, "route", PyNone))
       /\ flight_plan.fields["route"] # NotAvailable
  THEN Field("Route", Format(flight_plan.fields["route"]))
  ELSE <<>>

CallsignField(flight_plan, config) ==
  LET callsign == DictGet(flight_plan, "callsign", Unknown)
  IN  IF CfgGet(config, "show_callsign", TRUE) /\ Truthy(callsign)
      THEN Field("Callsign", Bold \o Format(callsign) \o Bold)
      ELSE <<>>

\* the embed built for one tenant
Render(flight_plan, config) ==
  [title |-> CfgGet(config, "embed_title", DefaultTitle),
   color |-> CfgGet(config, "embed_color", IntValue(DefaultColor)),
   thumbnail |-> IF Truthy(CfgGet(config, "embed_thumbnail", PyNone))
                 THEN config.embed_thumbnail ELSE PyNone,
   image |-> IF Truthy(CfgGet(config, "embed_image", PyNone))
             THEN config.embed_image ELSE PyNone,
   fields |-> CallsignField(flight_plan, config)
       \o PilotField(flight_plan, config)
       \o OptionalField(flight_plan, config, "show_aircraft", "aircraft", "Aircraft", <<>>)
       \o OptionalField(flight_plan, config, "show_departure", "departing", "Departure", <<>>)
       \o OptionalField(flight_plan, config, "show_arrival", "arriving", "Arrival", <<>>)
       \o OptionalField(flight_plan, config, "show_flightlevel", "flightlevel", "Flight Level", FL)
       \o OptionalField(flight_plan, config, "show_flightrules", "flightrules", "Flight Rules", <<>>)
       \o RouteField(flight_plan, config)]

\* ------------------------------------------------------------------- the state
VARIABLES
  pc,                     \* position of the flight_plan_monitor task
  sleep,                  \* seconds of the asyncio.sleep the monitor is in, 0 if none
  server_configs,         \* bot.server_configs: guild id -> config dict
  config_order,           \* iteration (insertion) order of the server_configs dict
  db,                     \* table server_configs of bot_config.db: guild id -> row
  processed_flight_plans, \* bot.processed_flight_plans, oldest first
  flight_plans,           \* process_flight_plan: records still to be visited
  flight_plan,            \* process_flight_plan: record of the last matching pass
  matching_configs,       \* process_flight_plan: match list of the last matching pass
  fan_configs,            \* send_flight_plan_notification: its matching_configs argument
  idx,                    \* send_flight_plan_notification: position in fan_configs, 0 outside
  embed,                  \* the embed handed to the pending channel.send
  message,                \* history: the last inbound message
  nmsgs,                  \* history: number of inbound messages taken
  ncmds,                  \* history: number of commands run
  notified,               \* history: the keys send_flight_plan_notification was invoked
                          \*   for, each with its position in recorded
  recorded,               \* history: keys appended to the cache, in order
  total,                  \* history: records in the payload of the last message
  visited,                \* history: records of that payload the loop has visited
  passes,                 \* history: matching passes made for that payload
  raised,                 \* history: exception that ended the handling of the message
  fanout,                 \* history: per-tenant outcomes of the last fan-out, kept
                          \*   until the next fan-out starts
  fan_state,              \* history: "none", "running", "returned" or "raised"
  render_config,          \* history: the config dict the pending embed was built from
  since_end,              \* history: "ended" after a message loop ended, "slept" after a sleep
  reply,                  \* history: reply of the last command, "none" when it sent none
  snapshot,               \* history: server_configs as it was at the matching pass of
                          \*   the record whose fan-out is suspended, empty outside
  subscribed,             \* history: guild id -> the prefixes the table held at start or
                          \*   /setup has added, less those /remove has removed
  command                 \* history: the last command as it was typed, where the
                          \*   specification keeps it

vars == <<pc, sleep, server_configs, config_order, db, processed_flight_plans,
          flight_plans, flight_plan, matching_configs, fan_configs, idx, embed,
          message, nmsgs, ncmds, notified, recorded, total, visited, passes,
          raised, fanout, fan_state, render_config, since_end, reply,
          snapshot, subscribed, command>>

configVars == <<server_configs, config_order, db>>

\* ---------------------------------------------------------------- environment
\* an empty dict
EmptyMap == [g \in {} |-> 0]

Guilds == {1, 2}
Channels == {101, 102}
\* what bot.get_channel and permissions_for give for a channel id
ChanStatus == {"ok", "no_channel", "no_permission"}
\* the channel ids bot.get_channel can be asked for
ConfiguredChannels ==
  {server_configs[g].channel_id : g \in DOMAIN server_configs}

\* how the awaited channel.send ends
SendOutcomes == {"sent", "send_error"}

NoEmbed == [title |-> PyNone, color |-> IntValue(0), thumbnail |-> PyNone,
            image |-> PyNone, fields |-> <<>>]

\* ------------------------------------------------------------------ the pipeline
\* The state the pipeline reads and writes, as one record.
Pipe ==
  [pc |-> pc, cache |-> processed_flight_plans, flight_plans |-> flight_plans,
   flight_plan |-> flight_plan, matching_configs |-> matching_configs,
   fan_configs |-> fan_configs, idx |-> idx, embed |-> embed,
   notified |-> notified, recorded |-> recorded, total |-> total,
   visited |-> visited, passes |-> passes, raised |-> raised,
   fanout |-> fanout, fan_state |-> fan_state, render_config |-> render_config,
   snapshot |-> snapshot]

SetPipe(m) ==
  /\ pc' = m.pc
  /\ processed_flight_plans' = m.cache
  /\ flight_plans' = m.flight_plans
  /\ flight_plan' = m.flight_plan
  /\ matching_configs' = m.matching_configs
  /\ fan_configs' = m.fan_configs
  /\ idx' = m.idx
  /\ embed' = m.embed
  /\ notified' = m.notified
  /\ recorded' = m.recorded
  /\ total' = m.total
  /\ visited' = m.visited
  /\ passes' = m.passes
  /\ raised' = m.raised
  /\ fanout' = m.fanout
  /\ fan_state' = m.fan_state
  /\ render_config' = m.render_config
  /\ snapshot' = IF m.pc = "send" THEN m.snapshot ELSE EmptyMap

\* "except Exception" around one tenant's delivery: what a failed channel.send
\* does to the loop over the matched tenants; mutant: the error leaves the loop
SendErrorPropagates(outcome) ==
  IF outcome = "send_error" THEN "propagate" ELSE "continue"

SendErrorHandling(outcome) == "continue"

\* "for guild_id, config, matched_prefix in matching_configs": the position
\* the loop goes to when the delivery to the tenant at position i has ended;
\* mutant: a failed delivery is tried again
RetryFailedTenant(i, outcome) == IF outcome = "send_error" THEN i ELSE i + 1

NextTenant(i, outcome) == i + 1

\* The loop of send_flight_plan_notification over the matched tenants, from
\* position i up to the next suspension point, the awaited channel.send
\* (pc = "send"), or to its end (pc = "records": back in the records loop).
\* st is what get_channel and permissions_for give during this run.
RECURSIVE RunFanOut(_, _, _, _, _)
RunFanOut(m, i, configs, order, st) ==
  IF i > Len(m.fan_configs)
  THEN [m EXCEPT !.pc = "records", !.fan_state = "returned", !.idx = 0,
                 !.embed = NoEmbed]
  ELSE LET config == configs[m.fan_configs[i].guild_id]
           status == st[config.channel_id]
       IN  IF status # "ok"
           THEN RunFanOut([m EXCEPT !.fanout = Append(@,
                              [guild_id |-> m.fan_configs[i].guild_id,
                               outcome |-> status])],
                          i + 1, configs, order, st)
           ELSE [m EXCEPT !.pc = "send", !.idx = i,
                          !.embed = Render(m.flight_plan, config),
                          !.render_config = config]

\* "if matching_configs:" is false: nothing more is done for the record, whose
\* key was appended before the matching loop; mutant: the key is kept only
\* for a record that is dispatched
UnmatchedForgotten(m) ==
  [m EXCEPT !.cache = SubSeq(@, 1, Len(@) - 1),
            !.recorded = SubSeq(@, 1, Len(@) - 1)]

Unmatched(m) == m

\* one iteration of the loop of process_flight_plan over the records
RecordStep(m, configs, order, st) ==
  LET fp == Head(m.flight_plans)
      m1 == [m EXCEPT !.flight_plans = Tail(@), !.visited = @ + 1]
  IN
  IF ~HasKey(fp, "callsign") THEN m1
  ELSE
    LET callsign == fp.fields["callsign"]
        flight_plan_id == FlightPlanId(fp)
    IN
    IF InDeque(m.cache, flight_plan_id)
    THEN [m1 EXCEPT !.cache = SeenAgain(@, flight_plan_id)]
    ELSE
      LET m2 == [m1 EXCEPT !.cache = DequeAppend(@, flight_plan_id),
                           !.recorded = Append(@, flight_plan_id)]
      IN
      IF UpperRaises(callsign, order, configs)
      THEN [m2 EXCEPT !.pc = "recv", !.raised = "AttributeError",
                      !.flight_plans = <<>>]
      ELSE
        LET matching == IF callsign.ty = "str"
                        THEN MatchingConfigs(callsign.s, order, configs)
                        ELSE <<>>
            m3 == [m2 EXCEPT !.flight_plan = fp,
                             !.matching_configs = matching,
                             !.passes = @ + 1,
                             !.snapshot = configs]
        IN
        IF matching = <<>> THEN Unmatched(m3)
        ELSE RunFanOut([m3 EXCEPT !.notified = Append(@,
                                      [key |-> flight_plan_id,
                                       at |-> Len(m2.recorded)]),
                                  !.fan_configs = matching,
                                  !.fanout = <<>>,
                                  !.fan_state = "running"],
                       1, configs, order, st)

\* up to n iterations of the records loop, stopping when the loop is left
RECURSIVE RunSteps(_, _, _, _, _)
RunSteps(m, n, configs, order, st) ==
  IF m.pc # "records" \/ m.flight_plans = <<>> THEN m
  ELSE IF n <= 1 THEN RecordStep(m, configs, order, st)
  ELSE RunSteps(RunSteps(m, n \div 2, configs, order, st),
                n - (n \div 2), configs, order, st)

\* the records loop from the current record up to the next awaited
\* channel.send, or to its end, where the monitor awaits the next message
RunRecords(m, configs, order, st) ==
  LET r == RunSteps([m EXCEPT !.pc = "records"], Len(m.flight_plans),
                    configs, order, st)
  IN  IF r.pc = "records" THEN [r EXCEPT !.pc = "recv"] ELSE r

\* the fan-out from position i on, then the rest of the records loop
ResumeFanOut(m, i, configs, order, st) ==
  LET r == RunFanOut(m, i, configs, order, st)
  IN  IF r.pc = "records" THEN RunRecords(r, configs, order, st) ELSE r

process_flight_plan(flight_plan_data, m, configs, order, st) ==
  LET plans == Unwrap(flight_plan_data)
  IN  IF plans = <<>> THEN m
      ELSE RunRecords([m EXCEPT !.flight_plans = plans, !.total = Len(plans)],
                      configs, order, st)

\* mutant: the allow-list check is missing
process_websocket_message_any_type(message_data, m, configs, order, st) ==
  IF ~IsEnvelope(message_data) THEN m
  ELSE process_flight_plan(message_data.fields["d"], m, configs, order, st)

process_websocket_message(message_data, m, configs, order, st) ==
  IF ~IsEnvelope(message_data) THEN m
  ELSE IF ~IsFlightPlanType(message_data.fields["t"]) THEN m
  ELSE process_flight_plan(message_data.fields["d"], m, configs, order, st)

\* the body of "async for message in websocket" for one message: msg.json
\* tells whether json.loads accepts the text, msg.val is what it returns
OnMessage(msg, m, configs, order, st) ==
  IF ~msg.json THEN [m EXCEPT !.raised = "JSONDecodeError"]
  ELSE process_websocket_message(msg.val, m, configs, order, st)

\* ------------------------------------------------------------------ persistence
Quote == "\""
Backslash == "\\"

\* the text json.dumps writes for the characters of a string (ensure_ascii):
\* a backslash before quote and backslash, the short escapes, \uXXXX for
\* whatever else is not printable ASCII
RECURSIVE JsonEscape(_)
JsonEscape(s) ==
  IF s = <<>> THEN <<>>
  ELSE LET c == Head(s)
           short == << <<Chr[8], "b">>, <<"\t", "t">>, <<"\n", "n">>,
                       <<"\f", "f">>, <<"\r", "r">> >>
           code == CHOOSE n \in DOMAIN Chr : Chr[n] = c
           hex == <<"0","1","2","3","4","5","6","7","8","9","a","b","c","d","e","f">>
       IN  (IF c \in {Quote, Backslash} THEN <<Backslash, c>>
            ELSE IF \E i \in 1..Len(short) : short[i][1] = c
            THEN <<Backslash, short[CHOOSE i \in 1..Len(short) : short[i][1] = c][2]>>
            ELSE IF code \in 32..126 THEN <<c>>
            ELSE <<Backslash, "u", hex[((code \div 4096) % 16) + 1],
                   hex[((code \div 256) % 16) + 1], hex[((code \div 16) % 16) + 1],
                   hex[(code % 16) + 1]>>)
           \o JsonEscape(Tail(s))

RECURSIVE JsonItems(_)
JsonItems(prefixes) ==
  IF prefixes = <<>> THEN <<>>
  ELSE <<Quote>> \o JsonEscape(Head(prefixes)) \o <<Quote>>
         \o (IF Len(prefixes) > 1 THEN <<",", " ">> ELSE <<>>)
         \o JsonItems(Tail(prefixes))

\* json.dumps of a list of strings
JsonDumps(prefixes) == <<"[">> \o JsonItems(prefixes) \o <<"]">>

\* json.loads of such a text: acc is the list so far, cur the string being
\* read, in_str whether the position is inside a string; an escape is decoded
RECURSIVE JsonParse(_, _, _, _)
JsonParse(text, acc, cur, in_str) ==
  LET digit(c) == (CHOOSE d \in 1..16 : <<HexChars[d]>> = UpperChar(c)) - 1
      unescaped(c) == CASE c = "b" -> Chr[8]
                        [] c = "f" -> "\f"
                        [] c = "n" -> "\n"
                        [] c = "r" -> "\r"
                        [] c = "t" -> "\t"
                        [] OTHER -> c
  IN  IF text = <<>> THEN acc
      ELSE IF in_str
           THEN IF Head(text) = Backslash /\ Len(text) > 1
                THEN IF text[2] = "u" /\ Len(text) >= 6
                     THEN JsonParse(SubSeq(text, 7, Len(text)), acc,
                            Append(cur, Chr[digit(text[3]) * 4096 + digit(text[4]) * 256
                                            + digit(text[5]) * 16 + digit(text[6])]),
                            TRUE)
                     ELSE JsonParse(Tail(Tail(text)), acc,
                                    Append(cur, unescaped(text[2])), TRUE)
                ELSE IF Head(text) = Quote
                     THEN JsonParse(Tail(text), Append(acc, cur), <<>>, FALSE)
                     ELSE JsonParse(Tail(text), acc, Append(cur, Head(text)), TRUE)
           ELSE IF Head(text) = Quote
                THEN JsonParse(Tail(text), acc, <<>>, TRUE)
                ELSE JsonParse(Tail(text), acc, cur, FALSE)

JsonLoads(text) == JsonParse(text, <<>>, <<>>, FALSE)

\* a Python bool bound to a BOOLEAN column
SqlBool(b) == IF b THEN 1 ELSE 0

\* a row of the table server_configs
Row(channel_id, prefixes_text, color, title, thumbnail, image, show) ==
  [channel_id |-> channel_id, callsign_prefixes |-> prefixes_text,
   embed_color |-> color, embed_title |-> title,
   embed_thumbnail |-> thumbnail, embed_image |-> image,
   show_callsign |-> show[1], show_pilot |-> show[2], show_aircraft |-> show[3],
   show_departure |-> show[4], show_arrival |-> show[5],
   show_flightlevel |-> show[6], show_flightrules |-> show[7],
   show_route |-> show[8]]

\* the dict load_configurations builds from a row
ConfigOfRow(row) ==
  [channel_id |-> row.channel_id,
   callsign_prefixes |-> IF row.callsign_prefixes # <<>>
                         THEN JsonLoads(row.callsign_prefixes) ELSE <<>>,
   has_embed |-> TRUE,
   embed_color |-> IF row.embed_color.digits # <<>> THEN row.embed_color
                   ELSE IntValue(DefaultColor),
   embed_title |-> IF Truthy(row.embed_title) THEN row.embed_title ELSE DefaultTitle,
   embed_thumbnail |-> row.embed_thumbnail,
   embed_image |-> row.embed_image,
   show_callsign |-> row.show_callsign # 0,
   show_pilot |-> row.show_pilot # 0,
   show_aircraft |-> row.show_aircraft # 0,
   show_departure |-> row.show_departure # 0,
   show_arrival |-> row.show_arrival # 0,
   show_flightlevel |-> row.show_flightlevel # 0,
   show_flightrules |-> row.show_flightrules # 0,
   show_route |-> row.show_route # 0]

\* load_configurations: one dict for every row of the table
load_configurations(table) == [g \in DOMAIN table |-> ConfigOfRow(table[g])]

\* the rows come back in rowid order, which is guild_id order
RECURSIVE Ascending(_)
Ascending(S) ==
  IF S = {} THEN <<>>
  ELSE LET least == CHOOSE x \in S : \A y \in S : x <= y
       IN  <<least>> \o Ascending(S \ {least})

\* the row save_configuration writes with INSERT OR REPLACE; mutant: the
\* appearance columns get the defaults of a new row
SavedRowFresh(existing_has, existing_config, channel_id, prefixes) ==
  Row(channel_id, JsonDumps(prefixes), IntValue(DefaultColor), DefaultTitle,
      PyNone, PyNone, <<1, 1, 1, 1, 1, 1, 1, 1>>)

SavedRow(existing_has, existing_config, channel_id, prefixes) ==
  LET get(key, default) ==
        IF existing_has THEN CfgGet(existing_config, key, default) ELSE default
  IN  Row(channel_id, JsonDumps(prefixes),
          get("embed_color", IntValue(DefaultColor)),
          get("embed_title", DefaultTitle),
          get("embed_thumbnail", PyNone), get("embed_image", PyNone),
          <<SqlBool(get("show_callsign", TRUE)), SqlBool(get("show_pilot", TRUE)),
            SqlBool(get("show_aircraft", TRUE)), SqlBool(get("show_departure", TRUE)),
            SqlBool(get("show_arrival", TRUE)), SqlBool(get("show_flightlevel", TRUE)),
            SqlBool(get("show_flightrules", TRUE)), SqlBool(get("show_route", TRUE))>>)

\* f with key k set to v, k added to the domain when new
Put(f, k, v) == [x \in DOMAIN f \cup {k} |-> IF x = k THEN v ELSE f[x]]

\* save_configuration(guild_id, channel_id, prefixes): the row is written and
\* the dict in server_configs is updated in place; mutant: only the row is
\* written, the dict is as it was loaded
save_configuration_row_only(guild_id, channel_id, prefixes) ==
  LET known == guild_id \in DOMAIN server_configs
      old == IF known THEN server_configs[guild_id] ELSE NewConfig(channel_id, prefixes)
  IN  /\ db' = Put(db, guild_id, SavedRow(known, old, channel_id, prefixes))
      /\ UNCHANGED <<server_configs, config_order>>

save_configuration(guild_id, channel_id, prefixes) ==
  LET known == guild_id \in DOMAIN server_configs
      old == IF known THEN server_configs[guild_id] ELSE NewConfig(channel_id, prefixes)
  IN  /\ db' = Put(db, guild_id, SavedRow(known, old, channel_id, prefixes))
      /\ server_configs' = Put(server_configs, guild_id,
                               [old EXCEPT !.channel_id = channel_id,
                                           !.callsign_prefixes = prefixes])
      /\ config_order' = IF known THEN config_order
                         ELSE Append(config_order, guild_id)

\* ------------------------------------------------------------------- the monitor
\* @tasks.loop(reconnect=True) without an interval: when the body returns it is
\* called again; mutant: the loop ends with the body
LoopStops == "stopped"

LoopAgain == "loop"

\* the sleep of the except clause that catches exc
ExceptSleep(exc) == IF exc = "InvalidURI" THEN InvalidUriSleep ELSE ReconnectSleep

Slept == IF since_end = "ended" THEN "slept" ELSE since_end

\* setup_hook: load_configurations fills server_configs from the table
setup_hook ==
  /\ pc = "new"
  /\ pc' = "hooked"
  /\ server_configs' = load_configurations(db)
  /\ config_order' = Ascending(DOMAIN db)
  /\ subscribed' = [g \in DOMAIN db |-> Elements(server_configs'[g].callsign_prefixes)]
  /\ UNCHANGED <<sleep, db, processed_flight_plans, flight_plans, flight_plan,
                 matching_configs, fan_configs, idx, embed, message, nmsgs,
                 ncmds, notified, recorded, total, visited, passes, raised,
                 fanout, fan_state, render_config, since_end, reply,
                 snapshot, command>>

\* on_ready: starts the monitor unless it is running
on_ready ==
  /\ pc # "new"
  /\ pc' = IF pc = "hooked" THEN "loop" ELSE pc
  /\ UNCHANGED <<sleep, server_configs, config_order, db, processed_flight_plans,
                 flight_plans, flight_plan, matching_configs, fan_configs, idx,
                 embed, message, nmsgs, ncmds, notified, recorded, total,
                 visited, passes, raised, fanout, fan_state, render_config,
                 since_end, reply,
                 snapshot, subscribed, command>>

\* the start of the body: sleep when nothing is configured, else connect
LoopStart ==
  /\ pc = "loop"
  /\ IF DOMAIN server_configs = {}
     THEN pc' = "wait_config" /\ sleep' = NoConfigSleep
     ELSE pc' = "connect" /\ sleep' = 0
  /\ UNCHANGED <<server_configs, config_order, db, processed_flight_plans,
                 flight_plans, flight_plan, matching_configs, fan_configs, idx,
                 embed, message, nmsgs, ncmds, notified, recorded, total,
                 visited, passes, raised, fanout, fan_state, render_config,
                 since_end, reply,
                 snapshot, subscribed, command>>

\* asyncio.sleep(10) is over and the body returns
NoConfigSleepDone ==
  /\ pc = "wait_config"
  /\ pc' = LoopAgain
  /\ sleep' = 0
  /\ since_end' = Slept
  /\ UNCHANGED <<server_configs, config_order, db, processed_flight_plans,
                 flight_plans, flight_plan, matching_configs, fan_configs, idx,
                 embed, message, nmsgs, ncmds, notified, recorded, total,
                 visited, passes, raised, fanout, fan_state, render_config, reply,
                 snapshot, subscribed, command>>

\* websockets.connect succeeds and the message loop starts
ConnectSucceeds ==
  /\ pc = "connect"
  /\ pc' = "recv"
  /\ since_end' = "none"
  /\ UNCHANGED <<sleep, server_configs, config_order, db, processed_flight_plans,
                 flight_plans, flight_plan, matching_configs, fan_configs, idx,
                 embed, message, nmsgs, ncmds, notified, recorded, total,
                 visited, passes, raised, fanout, fan_state, render_config, reply,
                 snapshot, subscribed, command>>

\* websockets.connect raises
ConnectFails ==
  /\ pc = "connect"
  /\ \E exc \in {"ConnectionClosed", "InvalidURI", "Exception"} :
       sleep' = ExceptSleep(exc)
  /\ pc' = "cooldown"
  /\ UNCHANGED <<server_configs, config_order, db, processed_flight_plans,
                 flight_plans, flight_plan, matching_configs, fan_configs, idx,
                 embed, message, nmsgs, ncmds, notified, recorded, total,
                 visited, passes, raised, fanout, fan_state, render_config,
                 since_end, reply,
                 snapshot, subscribed, command>>

\* the message loop ends with an exception of the connection
ConnectionLost ==
  /\ pc = "recv"
  /\ \E exc \in {"ConnectionClosed", "Exception"} : sleep' = ExceptSleep(exc)
  /\ pc' = "cooldown"
  /\ since_end' = "ended"
  /\ UNCHANGED <<server_configs, config_order, db, processed_flight_plans,
                 flight_plans, flight_plan, matching_configs, fan_configs, idx,
                 embed, message, nmsgs, ncmds, notified, recorded, total,
                 visited, passes, raised, fanout, fan_state, render_config, reply,
                 snapshot, subscribed, command>>

\* the message stream ends without an exception (the peer closed normally):
\* the async for is left, the body returns
StreamEnds ==
  /\ pc = "recv"
  /\ pc' = LoopAgain
  /\ since_end' = "ended"
  /\ UNCHANGED <<sleep, server_configs, config_order, db, processed_flight_plans,
                 flight_plans, flight_plan, matching_configs, fan_configs, idx,
                 embed, message, nmsgs, ncmds, notified, recorded, total,
                 visited, passes, raised, fanout, fan_state, render_config, reply,
                 snapshot, subscribed, command>>

\* the sleep of an except clause is over and the body returns
CooldownDone ==
  /\ pc = "cooldown"
  /\ pc' = LoopAgain
  /\ sleep' = 0
  /\ since_end' = Slept
  /\ UNCHANGED <<server_configs, config_order, db, processed_flight_plans,
                 flight_plans, flight_plan, matching_configs, fan_configs, idx,
                 embed, message, nmsgs, ncmds, notified, recorded, total,
                 visited, passes, raised, fanout, fan_state, render_config, reply,
                 snapshot, subscribed, command>>

\* bot.server_configs after a run of the pipeline: process_flight_plan and
\* send_flight_plan_notification read the mapping and the dicts in it and
\* assign to neither; mutant: the matching loop stores the upper-cased
\* prefixes back into the tenant's dict
UpperCasedInPlace(configs) ==
  [g \in DOMAIN configs |->
     [configs[g] EXCEPT !.callsign_prefixes =
        [i \in 1..Len(configs[g].callsign_prefixes) |->
           upper(configs[g].callsign_prefixes[i])]]]

ConfigsAfterPipeline(configs) == configs

\* one inbound message is taken and handled up to the first awaited
\* channel.send or to its end
ReceiveMessage(msgs, max) ==
  /\ pc = "recv"
  /\ nmsgs < max
  /\ \E i \in 1..Len(msgs), st \in [ConfiguredChannels -> ChanStatus] :
       /\ message' = msgs[i]
       /\ SetPipe(OnMessage(msgs[i],
                    [Pipe EXCEPT !.flight_plans = <<>>, !.flight_plan = PyNone,
                                 !.matching_configs = <<>>, !.fan_configs = <<>>,
                                 !.total = 0, !.visited = 0, !.passes = 0,
                                 !.raised = "none", !.fan_state = "none",
                                 !.render_config = NewConfig(0, <<>>),
                                 !.snapshot = EmptyMap],
                    server_configs, config_order, st))
  /\ nmsgs' = nmsgs + 1
  /\ server_configs' = ConfigsAfterPipeline(server_configs)
  /\ UNCHANGED <<sleep, config_order, db, ncmds, since_end, reply, subscribed, command>>

\* the awaited channel.send ends; the fan-out and the records loop go on
SendCompletes ==
  /\ pc = "send"
  /\ \E outcome \in SendOutcomes, st \in [ConfiguredChannels -> ChanStatus] :
       LET m == [Pipe EXCEPT !.fanout = Append(@,
                      [guild_id |-> fan_configs[idx].guild_id,
                       outcome |-> outcome])]
       IN  IF SendErrorHandling(outcome) = "continue"
           THEN SetPipe(ResumeFanOut(m, NextTenant(idx, outcome),
                                     server_configs, config_order, st))
           ELSE SetPipe([m EXCEPT !.pc = "recv", !.raised = "SendError",
                                  !.fan_state = "raised", !.flight_plans = <<>>,
                                  !.idx = 0, !.embed = NoEmbed])
  /\ server_configs' = ConfigsAfterPipeline(server_configs)
  /\ UNCHANGED <<sleep, config_order, db, message, nmsgs, ncmds, since_end, reply,
                 subscribed, command>>

\* ------------------------------------------------------------------ the commands
\* list.remove(x): the first occurrence goes
RECURSIVE ListRemove(_, _)
ListRemove(l, x) ==
  IF l = <<>> THEN <<>>
  ELSE IF Head(l) = x THEN Tail(l)
  ELSE <<Head(l)>> \o ListRemove(Tail(l), x)

InList(l, x) == \E i \in 1..Len(l) : l[i] = x

commandFrame == <<pc, sleep, processed_flight_plans, flight_plans, flight_plan,
                  matching_configs, fan_configs, idx, embed, message, nmsgs,
                  notified, recorded, total, visited, passes, raised, fanout,
                  fan_state, render_config, since_end, snapshot>>

\* /setup callsign_prefix channel
setup_command(guild_id, raw_prefix, channel_id, administrator) ==
  LET callsign_prefix == strip(upper(raw_prefix))
      existing == IF guild_id \in DOMAIN server_configs
                  THEN server_configs[guild_id].callsign_prefixes ELSE <<>>
      prefixes == IF InList(existing, callsign_prefix) THEN existing
                  ELSE Append(existing, callsign_prefix)
  IN  IF ~administrator
      THEN reply' = "not_administrator" /\ UNCHANGED configVars
      ELSE IF callsign_prefix = <<>> \/ Len(callsign_prefix) < MinPrefixLen
      THEN reply' = "invalid_prefix" /\ UNCHANGED configVars
      ELSE reply' = "configured" /\ save_configuration(guild_id, channel_id, prefixes)

\* /remove callsign_prefix
remove_command(guild_id, raw_prefix, administrator) ==
  LET callsign_prefix == strip(upper(raw_prefix))
  IN  IF ~administrator
      THEN reply' = "not_administrator" /\ UNCHANGED configVars
      ELSE IF guild_id \notin DOMAIN server_configs
      THEN reply' = "no_configuration" /\ UNCHANGED configVars
      ELSE IF ~InList(server_configs[guild_id].callsign_prefixes, callsign_prefix)
      THEN reply' = "not_monitored" /\ UNCHANGED configVars
      ELSE /\ reply' = "removed"
           /\ save_configuration(guild_id, server_configs[guild_id].channel_id,
                ListRemove(server_configs[guild_id].callsign_prefixes, callsign_prefix))

\* parsed_color: ColorNone when no colour is given, ColorError for ValueError,
\* the Python int otherwise
ColorNone == [ty |-> "none"]
ColorError == [ty |-> "error"]

\* the digits of an int(s, 16) literal after the digits acc: single
\* underscores between digits are skipped; <<-1>> for a character that is no
\* hex digit and for an underscore not followed by a digit
RECURSIVE HexNumber(_, _)
HexNumber(s, acc) ==
  IF s = <<>> THEN acc
  ELSE IF Head(s) = "_"
       THEN IF Len(s) > 1 /\ s[2] # "_" THEN HexNumber(Tail(s), acc) ELSE <<-1>>
  ELSE IF \E d \in 1..16 : <<HexChars[d]>> = UpperChar(Head(s))
       THEN HexNumber(Tail(s),
              Append(acc, (CHOOSE d \in 1..16 :
                             <<HexChars[d]>> = UpperChar(Head(s))) - 1))
       ELSE <<-1>>

\* int(s, 16): the white space around the literal is dropped, which for int
\* is the white space of strip() less U+001C..U+001F, then come an optional
\* sign, an optional 0x or 0X, which one underscore may follow, and the
\* digits
IntBase16(s) ==
  LET space == Whitespace \ {"\\u001c", "\\u001d", "\\u001e", "\\u001f"}
      inside == {i \in 1..Len(s) : s[i] \notin space}
      literal == IF inside = {} THEN <<>>
                 ELSE SubSeq(s, CHOOSE i \in inside : \A j \in inside : i <= j,
                                CHOOSE i \in inside : \A j \in inside : j <= i)
      signed == literal # <<>> /\ Head(literal) \in {"+", "-"}
      body == IF signed THEN Tail(literal) ELSE literal
      prefixed == Len(body) >= 2 /\ body[1] = "0" /\ body[2] \in {"x", "X"}
      rest == IF prefixed THEN SubSeq(body, 3, Len(body)) ELSE body
      digits == IF prefixed /\ rest # <<>> /\ Head(rest) = "_" THEN Tail(rest)
                ELSE rest
      value == HexNumber(digits, <<>>)
      nonzero == {i \in 1..Len(value) : value[i] # 0}
      magnitude == IF nonzero = {} THEN <<>>
                   ELSE SubSeq(value,
                               CHOOSE i \in nonzero : \A j \in nonzero : i <= j,
                               Len(value))
  IN  IF digits = <<>> \/ Head(digits) = "_" \/ value = <<-1>> THEN ColorError
      ELSE [ty |-> "int", neg |-> Head(literal) = "-" /\ magnitude # <<>>,
            digits |-> magnitude]

RECURSIVE LstripHash(_)
LstripHash(s) == IF s # <<>> /\ Head(s) = "#" THEN LstripHash(Tail(s)) ELSE s

\* parsed_color of config_command
ParsedColor(kwargs) ==
  IF "embed_color" \in DOMAIN kwargs /\ Truthy(kwargs["embed_color"])
  THEN IntBase16(LstripHash(strip(kwargs["embed_color"].s)))
  ELSE ColorNone

HttpPrefix == <<"h","t","t","p",":","/","/">>
HttpsPrefix == <<"h","t","t","p","s",":","/","/">>

\* the URL check of config_command for the option key
BadUrl(kwargs, key) ==
  /\ key \in DOMAIN kwargs
  /\ Truthy(kwargs[key])
  /\ ~(startswith(kwargs[key].s, HttpPrefix) \/ startswith(kwargs[key].s, HttpsPrefix))

\* update_params
UpdateParams(kwargs, parsed_color) ==
  [k \in (DOMAIN kwargs \ {"embed_color"})
         \cup (IF parsed_color # ColorNone THEN {"embed_color"} ELSE {})
     |-> IF k = "embed_color" THEN parsed_color ELSE kwargs[k]]

\* the values save_embed_configuration binds to the UPDATE: those of kwargs,
\* for the rest those of the dict in memory or the defaults
UpdatedConfig(guild_id, params) ==
  LET current == server_configs[guild_id]
      val(key, default) ==
        IF key \in DOMAIN params THEN params[key] ELSE CfgGet(current, key, default)
  IN  [current EXCEPT
         !.has_embed = TRUE,
         !.embed_color = val("embed_color", IntValue(DefaultColor)),
         !.embed_title = val("embed_title", DefaultTitle),
         !.embed_thumbnail = val("embed_thumbnail", PyNone),
         !.embed_image = val("embed_image", PyNone),
         !.show_callsign = val("show_callsign", TRUE),
         !.show_pilot = val("show_pilot", TRUE),
         !.show_aircraft = val("show_aircraft", TRUE),
         !.show_departure = val("show_departure", TRUE),
         !.show_arrival = val("show_arrival", TRUE),
         !.show_flightlevel = val("show_flightlevel", TRUE),
         !.show_flightrules = val("show_flightrules", TRUE),
         !.show_route = val("show_route", TRUE)]

\* save_embed_configuration(guild_id, **update_params); cursor.execute raises
\* OverflowError for a colour that is no sqlite INTEGER, before the commit and
\* before the dict in memory is updated
save_embed_configuration(guild_id, params) ==
  LET new == UpdatedConfig(guild_id, params)
  IN  IF ~SqliteInteger(new.embed_color) THEN UNCHANGED configVars
      ELSE
      /\ server_configs' = [server_configs EXCEPT ![guild_id] = new]
      /\ db' = IF guild_id \in DOMAIN db
               THEN [db EXCEPT ![guild_id] =
                      Row(@.channel_id, @.callsign_prefixes,
                          new.embed_color, new.embed_title,
                          new.embed_thumbnail, new.embed_image,
                          <<SqlBool(new.show_callsign), SqlBool(new.show_pilot),
                            SqlBool(new.show_aircraft), SqlBool(new.show_departure),
                            SqlBool(new.show_arrival), SqlBool(new.show_flightlevel),
                            SqlBool(new.show_flightrules), SqlBool(new.show_route)>>)]
               ELSE db
      /\ UNCHANGED config_order

\* /config with the options of kwargs; an exception of
\* save_embed_configuration leaves the handler before it replies
config_command(guild_id, kwargs, administrator) ==
  LET parsed_color == ParsedColor(kwargs)
      update_params == UpdateParams(kwargs, parsed_color)
  IN  IF ~administrator
      THEN reply' = "not_administrator" /\ UNCHANGED configVars
      ELSE IF guild_id \notin DOMAIN server_configs
      THEN reply' = "no_configuration" /\ UNCHANGED configVars
      ELSE IF parsed_color = ColorError
      THEN reply' = "invalid_color" /\ UNCHANGED configVars
      ELSE IF BadUrl(kwargs, "embed_thumbnail")
      THEN reply' = "invalid_thumbnail" /\ UNCHANGED configVars
      ELSE IF BadUrl(kwargs, "embed_image")
      THEN reply' = "invalid_image" /\ UNCHANGED configVars
      ELSE IF DOMAIN update_params = {}
      THEN reply' = "no_parameters" /\ UNCHANGED configVars
      ELSE /\ save_embed_configuration(guild_id, update_params)
           /\ reply' =
                IF SqliteInteger(UpdatedConfig(guild_id, update_params).embed_color)
                THEN "updated" ELSE "none"

\* ----------------------------------------------------------------------- inputs
FLIGHT_PLAN == <<"F","L","I","G","H","T","_","P","L","A","N">>
EVENT_FLIGHT_PLAN ==
  <<"E","V","E","N","T","_","F","L","I","G","H","T","_","P","L","A","N">>

DAL1 == <<"D","A","L","1">>

PlanFull ==
  PyDict([callsign |-> PyStr(DAL1), robloxName |-> PyStr(<<"X">>),
          departing |-> PyStr(<<"K","L">>), arriving |-> PyStr(<<"K","S">>),
          aircraft |-> PyStr(<<"B","7">>), flightlevel |-> PyInt(<<"3","5","0">>),
          flightrules |-> PyStr(<<"I","F","R">>), route |-> PyStr(<<"D","C","T">>)])

PlanBare == PyDict([callsign |-> PyStr(DAL1)])

\* same key as PlanBare: the pilot name is present and empty
PlanBlank ==
  PyDict([callsign |-> PyStr(DAL1), robloxName |-> PyStr(<<>>),
          aircraft |-> PyStr(<<>>), route |-> NotAvailable])

PlanLower == PyDict([callsign |-> PyStr(<<"d","a","x">>), departing |-> PyStr(<<"K","L">>)])

PlanOther == PyDict([callsign |-> PyStr(<<"é","9">>)])

PlanIntCallsign == PyDict([callsign |-> PyInt(<<"7">>)])

PlanNoCallsign == PyDict([robloxName |-> PyStr(<<"X">>)])

NotAPlan == PyStr(<<"x">>)

Envelope(t, d) == [json |-> TRUE, val |-> PyDict([t |-> PyStr(t), d |-> d])]

Messages ==
  << [json |-> FALSE, val |-> PyNone],
     [json |-> TRUE, val |-> PyList(<<PlanFull>>)],
     [json |-> TRUE, val |-> PyDict([t |-> PyStr(FLIGHT_PLAN)])],
     Envelope(<<"A","C","F","T">>, PlanFull),
     Envelope(FLIGHT_PLAN, PlanFull),
     Envelope(EVENT_FLIGHT_PLAN, PyList(<<PlanBare, PlanLower>>)),
     Envelope(FLIGHT_PLAN, PyDict([flightPlan |-> PlanBlank])),
     Envelope(FLIGHT_PLAN, PyList(<<PlanIntCallsign, PlanFull>>)),
     Envelope(FLIGHT_PLAN, PyList(<<NotAPlan, PlanNoCallsign, PlanOther>>)),
     Envelope(FLIGHT_PLAN, NotAPlan) >>

\* decimal digits of a positive number
RECURSIVE Decimal(_)
Decimal(n) ==
  LET digit == <<"0","1","2","3","4","5","6","7","8","9">>[(n % 10) + 1]
  IN  IF n < 10 THEN <<digit>> ELSE Append(Decimal(n \div 10), digit)

Filler(n) == PyDict([callsign |-> PyStr(<<"Z">> \o Decimal(n))])

Fillers(from, to) == [n \in 1..(to - from + 1) |-> Filler(from + n - 1)]

\* a payload of as many distinct records as the cache holds
Flood == Envelope(FLIGHT_PLAN, PyList(Fillers(1, DedupCapacity)))

CacheMessages ==
  << Envelope(FLIGHT_PLAN, PlanBare),
     Envelope(FLIGHT_PLAN, PlanFull),
     Envelope(FLIGHT_PLAN, Filler(1)),
     Flood >>

LiveMessages ==
  << Envelope(FLIGHT_PLAN, PlanFull),
     Envelope(EVENT_FLIGHT_PLAN, PyList(<<PlanBare, PlanLower>>)) >>

\* what a wrapper key k of a payload can hold: nothing (the key is absent), a
\* string, an empty list, a list of one record, a record, an object without
\* callsign; the records differ from key to key
Absent == [ty |-> "absent"]

WrapperShapes(k) ==
  << Absent, NotAPlan, PyList(<<>>), PyList(<<Filler(k)>>), Filler(10 + k),
     PlanNoCallsign >>

\* the n-th object made of the wrapper keys, every combination of shapes
WrapperPayload(n) ==
  LET shapes == Len(WrapperShapes(1))
      held(k) == WrapperShapes(k)[(((n - 1) \div (shapes ^ (k - 1))) % shapes) + 1]
      present == {k \in 1..Len(WrapperKeys) : held(k) # Absent}
  IN  PyDict([key \in {WrapperKeys[k] : k \in present} |->
                held(CHOOSE k \in present : WrapperKeys[k] = key)])

\* the other payload shapes: a list, a record, a record that also has a
\* wrapper key, a string, an object with an unknown key
OtherPayloads ==
  << PyList(<<PlanBare, PlanOther>>),
     PlanFull,
     PyDict([callsign |-> PyStr(DAL1), data |-> PyList(<<PlanOther>>)]),
     NotAPlan,
     PyDict([plans |-> PyList(<<PlanFull>>)]) >>

UnwrapMessages ==
  LET wrapped == Len(WrapperShapes(1)) ^ Len(WrapperKeys)
  IN  [n \in 1..(wrapped + Len(OtherPayloads)) |->
         Envelope(FLIGHT_PLAN,
                  IF n <= wrapped THEN WrapperPayload(n)
                  ELSE OtherPayloads[n - wrapped])]

\* values of the four fields the key is made of; Absent: the record has no
\* such field
KeyValues ==
  [callsign |-> << PyStr(<<"A">>), PyStr(<<"A","_","B">>) >>,
   robloxName |-> << Absent, PyStr(<<>>), PyStr(<<"C">>), PyStr(<<"B","_","C">>) >>,
   departing |-> << Absent, PyStr(<<>>), PyStr(<<"K">>) >>,
   arriving |-> << Absent, PyStr(<<"K">>) >>]

\* the record with the c-th callsign, p-th pilot name, d-th departure and
\* a-th arrival
KeyRecord(c, p, d, a) ==
  LET value == [callsign |-> KeyValues.callsign[c],
                robloxName |-> KeyValues.robloxName[p],
                departing |-> KeyValues.departing[d],
                arriving |-> KeyValues.arriving[a]]
  IN  PyDict([key \in {k \in DOMAIN value : value[k] # Absent} |-> value[key]])

NumKeyRecords ==
  Len(KeyValues.callsign) * Len(KeyValues.robloxName)
    * Len(KeyValues.departing) * Len(KeyValues.arriving)

\* the n-th record, every combination of the values
KeyRecordAt(n) ==
  LET c == (n - 1) % Len(KeyValues.callsign)
      p == ((n - 1) \div Len(KeyValues.callsign)) % Len(KeyValues.robloxName)
      d == ((n - 1) \div (Len(KeyValues.callsign) * Len(KeyValues.robloxName)))
             % Len(KeyValues.departing)
      a == (n - 1) \div (Len(KeyValues.callsign) * Len(KeyValues.robloxName)
                           * Len(KeyValues.departing))
  IN  KeyRecord(c + 1, p + 1, d + 1, a + 1)

\* the payloads of two such records, every ordered pair
KeyMessages ==
  [n \in 1..(NumKeyRecords * NumKeyRecords) |->
     Envelope(FLIGHT_PLAN,
              PyList(<<KeyRecordAt(((n - 1) \div NumKeyRecords) + 1),
                       KeyRecordAt(((n - 1) % NumKeyRecords) + 1)>>))]

PayloadMessages == UnwrapMessages \o KeyMessages

AllShown == <<1, 1, 1, 1, 1, 1, 1, 1>>

\* contents the table can have when the bot starts
DbInits ==
  << EmptyMap,
     [g \in {1, 2} |->
        IF g = 1
        THEN Row(101, JsonDumps(<< <<"D","A","L">>, <<"D">> >>),
                 IntValue(DefaultColor),
                 DefaultTitle, PyNone, PyNone, AllShown)
        ELSE Row(102, JsonDumps(<< <<"d","a">> >>), IntValue(255), PyStr(<<"T">>),
                 PyStr(HttpPrefix \o <<"t">>), PyNone, <<1, 0, 0, 1, 1, 1, 1, 1>>)],
     [g \in {1, 2} |->
        IF g = 1
        THEN Row(101, <<>>, IntValue(0), PyNone, PyNone, PyNone, AllShown)
        ELSE Row(101, JsonDumps(<< <<"D","A">>, <<"D","A","L">>, <<"É">> >>),
                 IntValue(DefaultColor),
                 DefaultTitle, PyNone, PyNone, <<0, 1, 1, 0, 0, 0, 0, 0>>)] >>

DbLive == <<DbInits[1], DbInits[2]>>

DbCache ==
  << [g \in {1} |-> Row(101, JsonDumps(<< <<"D","A","L">> >>),
                        IntValue(DefaultColor),
                        DefaultTitle, PyNone, PyNone, AllShown)] >>

DbPayload ==
  << [g \in {1} |-> Row(101, JsonDumps(<< <<"D","A","L">>, <<"Z">>, <<"A">> >>),
                        IntValue(DefaultColor),
                        DefaultTitle, PyNone, PyNone, AllShown)] >>

DbLate ==
  << EmptyMap,
     [g \in {1} |-> Row(101, JsonDumps(<< <<"U","A">> >>),
                        IntValue(DefaultColor),
                        DefaultTitle, PyNone, PyNone, AllShown)] >>

\* what an administrator or another member can type as a prefix: lower case,
\* a tab before and a no-break space after, one letter whose upper case is
\* two, a blank inside, too short, white space only
CmdPrefixes ==
  << <<"d","a","l">>, <<"\t","D","A","L","\\u00a0">>, <<"ß">>, <<"d"," ","l">>,
     <<"d">>, <<" ">> >>

\* prefixes typed while the appearance is configured: new, monitored, too
\* short
ConfigPrefixes == << <<"é","1">>, <<"\n","d","a","l">>, <<"d"," ">> >>

LiveSetupPrefixes == << <<"d","a","l">> >>

LiveRemovePrefixes == << <<"D","A","L">> >>

\* options an administrator or another member can pass to /config: colours
\* (blue with an underscore between the digits, black, a negative number, not
\* a number, U+001C before the digits, 2^63), a title with a flag, URLs with
\* and without http(s), nothing
CmdConfigInputs ==
  << [embed_color |-> PyStr(<<" ","#","0","x","_","f","F">>)],
     [embed_color |-> PyStr(<<"#","0","0","0","0","0","0">>)],
     [embed_color |-> PyStr(<<"#","-","f","f">>)],
     [embed_color |-> PyStr(<<"r","e","d">>)],
     [embed_color |-> PyStr(<<"#","\\u001c","f","f">>)],
     [embed_color |-> PyStr(<<"#","8","0","0","0","0","0","0","0","0","0","0","0",
                              "0","0","0","0">>)],
     [embed_title |-> PyStr(<<"T">>), show_pilot |-> FALSE],
     [embed_thumbnail |-> PyStr(HttpsPrefix \o <<"t">>),
      embed_image |-> PyStr(HttpPrefix \o <<"i">>)],
     [embed_thumbnail |-> PyStr(<<"f","t","p",":","/","/","t">>)],
     [embed_image |-> PyStr(<<"i">>), show_route |-> FALSE],
     EmptyMap >>

LiveConfigInputs == << [show_pilot |-> FALSE, show_route |-> FALSE] >>

\* ---------------------------------------------------------------- specification
InitWith(dbs) ==
  /\ pc = "new"
  /\ sleep = 0
  /\ server_configs = EmptyMap
  /\ config_order = <<>>
  /\ \E i \in 1..Len(dbs) : db = dbs[i]
  /\ processed_flight_plans = <<>>
  /\ flight_plans = <<>>
  /\ flight_plan = PyNone
  /\ matching_configs = <<>>
  /\ fan_configs = <<>>
  /\ idx = 0
  /\ embed = NoEmbed
  /\ message = [json |-> FALSE, val |-> PyNone]
  /\ nmsgs = 0
  /\ ncmds = 0
  /\ notified = <<>>
  /\ recorded = <<>>
  /\ total = 0
  /\ visited = 0
  /\ passes = 0
  /\ raised = "none"
  /\ fanout = <<>>
  /\ fan_state = "none"
  /\ render_config = NewConfig(0, <<>>)
  /\ since_end = "none"
  /\ reply = "none"
  /\ snapshot = EmptyMap
  /\ subscribed = EmptyMap
  /\ command = [name |-> "none"]

Init == InitWith(DbInits)

\* a command arrives once the bot is connected
Connected(max) == pc # "new" /\ ncmds < max

Setup(prefixes, admins, max) ==
  /\ Connected(max)
  /\ \E guild_id \in Guilds, i \in 1..Len(prefixes), channel_id \in Channels,
        administrator \in admins :
       /\ setup_command(guild_id, prefixes[i], channel_id, administrator)
       /\ subscribed' = IF reply' = "configured"
                        THEN Put(subscribed, guild_id,
                                 (IF guild_id \in DOMAIN subscribed
                                  THEN subscribed[guild_id] ELSE {})
                                   \cup {strip(upper(prefixes[i]))})
                        ELSE subscribed
  /\ ncmds' = ncmds + 1
  /\ UNCHANGED <<commandFrame, command>>

Remove(prefixes, admins, max) ==
  /\ Connected(max)
  /\ \E guild_id \in Guilds, i \in 1..Len(prefixes), administrator \in admins :
       /\ remove_command(guild_id, prefixes[i], administrator)
       /\ subscribed' = IF reply' = "removed"
                        THEN [subscribed EXCEPT ![guild_id] =
                                @ \ {strip(upper(prefixes[i]))}]
                        ELSE subscribed
  /\ ncmds' = ncmds + 1
  /\ UNCHANGED <<commandFrame, command>>

Config(inputs, admins, max) ==
  /\ Connected(max)
  /\ \E guild_id \in Guilds, i \in 1..Len(inputs), administrator \in admins :
       config_command(guild_id, inputs[i], administrator)
  /\ ncmds' = ncmds + 1
  /\ UNCHANGED <<commandFrame, subscribed, command>>

Receive == ReceiveMessage(Messages, MaxMsgs)

\* the monitor and the pipeline over the configurations found in the table
Next ==
  \/ setup_hook
  \/ on_ready
  \/ LoopStart
  \/ NoConfigSleepDone
  \/ ConnectSucceeds
  \/ ConnectFails
  \/ ConnectionLost
  \/ StreamEnds
  \/ CooldownDone
  \/ Receive
  \/ SendCompletes

Spec == Init /\ [][Next]_vars

\* the monitor and the pipeline while the commands change the configuration
InitLive == InitWith(DbLive)

ReceiveLive == ReceiveMessage(LiveMessages, MaxLiveMsgs)

SetupLive == Setup(LiveSetupPrefixes, {TRUE}, MaxLiveCmds)

RemoveLive == Remove(LiveRemovePrefixes, {TRUE}, MaxLiveCmds)

ConfigLive == Config(LiveConfigInputs, {TRUE}, MaxLiveCmds)

NextLive ==
  \/ setup_hook
  \/ on_ready
  \/ LoopStart
  \/ NoConfigSleepDone
  \/ ConnectSucceeds
  \/ ConnectFails
  \/ ConnectionLost
  \/ StreamEnds
  \/ CooldownDone
  \/ ReceiveLive
  \/ SendCompletes
  \/ SetupLive
  \/ RemoveLive
  \/ ConfigLive

SpecLive == InitLive /\ [][NextLive]_vars

\* the event loop runs a task that is ready: a finished sleep returns and the
\* loop calls the body again
FairLive ==
  SpecLive /\ WF_vars(LoopStart) /\ WF_vars(CooldownDone)
           /\ WF_vars(NoConfigSleepDone)

\* the cache under a flood of distinct keys, with one tenant watching DAL
InitCache == InitWith(DbCache)

ReceiveCache == ReceiveMessage(CacheMessages, MaxCacheMsgs)

NextCache ==
  \/ setup_hook
  \/ on_ready
  \/ LoopStart
  \/ ConnectSucceeds
  \/ ReceiveCache
  \/ SendCompletes

SpecCache == InitCache /\ [][NextCache]_vars

\* /setup and /remove from an empty configuration
InitCmd == InitWith(<<EmptyMap>>)

SetupCmd == Setup(CmdPrefixes, BOOLEAN, MaxCmds)

RemoveCmd == Remove(CmdPrefixes, BOOLEAN, MaxCmds)

NextCmd ==
  \/ setup_hook
  \/ on_ready
  \/ SetupCmd
  \/ RemoveCmd

SpecCmd == InitCmd /\ [][NextCmd]_vars

\* the three commands on the tables the bot can start with, each kept in
\* command as it was typed
SetupAny ==
  /\ Connected(MaxConfigCmds)
  /\ \E guild_id \in Guilds, i \in 1..Len(ConfigPrefixes), channel_id \in Channels,
        administrator \in BOOLEAN :
       /\ setup_command(guild_id, ConfigPrefixes[i], channel_id, administrator)
       /\ subscribed' = IF reply' = "configured"
                        THEN Put(subscribed, guild_id,
                                 (IF guild_id \in DOMAIN subscribed
                                  THEN subscribed[guild_id] ELSE {})
                                   \cup {strip(upper(ConfigPrefixes[i]))})
                        ELSE subscribed
       /\ command' = [name |-> "setup", guild_id |-> guild_id,
                      administrator |-> administrator,
                      callsign_prefix |-> ConfigPrefixes[i]]
  /\ ncmds' = ncmds + 1
  /\ UNCHANGED commandFrame

RemoveAny ==
  /\ Connected(MaxConfigCmds)
  /\ \E guild_id \in Guilds, i \in 1..Len(ConfigPrefixes), administrator \in BOOLEAN :
       /\ remove_command(guild_id, ConfigPrefixes[i], administrator)
       /\ subscribed' = IF reply' = "removed"
                        THEN [subscribed EXCEPT ![guild_id] =
                                @ \ {strip(upper(ConfigPrefixes[i]))}]
                        ELSE subscribed
       /\ command' = [name |-> "remove", guild_id |-> guild_id,
                      administrator |-> administrator,
                      callsign_prefix |-> ConfigPrefixes[i]]
  /\ ncmds' = ncmds + 1
  /\ UNCHANGED commandFrame

ConfigAny ==
  /\ Connected(MaxConfigCmds)
  /\ \E guild_id \in Guilds, i \in 1..Len(CmdConfigInputs), administrator \in BOOLEAN :
       /\ config_command(guild_id, CmdConfigInputs[i], administrator)
       /\ command' = [name |-> "config", guild_id |-> guild_id,
                      administrator |-> administrator,
                      kwargs |-> CmdConfigInputs[i]]
  /\ ncmds' = ncmds + 1
  /\ UNCHANGED <<commandFrame, subscribed>>

NextConfig ==
  \/ setup_hook
  \/ on_ready
  \/ SetupAny
  \/ RemoveAny
  \/ ConfigAny

SpecConfig == Init /\ [][NextConfig]_vars

\* the commands while no tenant, or one tenant watching a prefix that no
\* record has, is configured at start
InitLate == InitWith(DbLate)

SpecLate == InitLate /\ [][NextLive]_vars

\* one message of every payload shape and of every pair of records, with one
\* tenant watching DAL, Z and A
InitPayload == InitWith(DbPayload)

ReceivePayload == ReceiveMessage(PayloadMessages, MaxPayloadMsgs)

NextPayload ==
  \/ setup_hook
  \/ on_ready
  \/ LoopStart
  \/ ConnectSucceeds
  \/ ReceivePayload
  \/ SendCompletes

SpecPayload == InitPayload /\ [][NextPayload]_vars

\* ------------------------------------------------------------------- properties
NotifiedKeys == {notified[i].key : i \in 1..Len(notified)}

\* the record of a message that carries one record as its payload
SingleRecord(msg) == msg.val.fields["d"]

IsSingleRecord(msg) ==
  /\ msg.json
  /\ IsEnvelope(msg.val)
  /\ IsFlightPlanType(msg.val.fields["t"])
  /\ HasKey(msg.val.fields["d"], "callsign")

\* C1, as the claim states it: send_flight_plan_notification is never invoked
\* twice for the same key, whatever was received in between.
C1_NeverNotifiedTwice ==
  \A a, b \in 1..Len(notified) :
    a < b => notified[a].key # notified[b].key

\* C1, amended: two invocations of send_flight_plan_notification for the same
\* key are separated by more than DedupCapacity recordings, that is, the key
\* had been evicted from the cache in between; a record whose key is still in
\* the cache is never notified again.
C1_NotifiedOncePerWindow ==
  \A a, b \in 1..Len(notified) :
    (a < b /\ notified[a].key = notified[b].key)
      => notified[b].at - notified[a].at > DedupCapacity

\* a single-record message whose key was notified before has been received
\* again and was suppressed
C1_Witness ==
  /\ pc = "recv"
  /\ nmsgs >= 2
  /\ IsSingleRecord(message)
  /\ FlightPlanId(SingleRecord(message)) \in NotifiedKeys
  /\ InDeque(processed_flight_plans, FlightPlanId(SingleRecord(message)))
  /\ total = 1 /\ visited = 1 /\ passes = 0

\* C2: the cache never holds more than DedupCapacity keys, and the key recorded
\* DedupCapacity recordings ago is not in it: once DedupCapacity + 1 keys
\* have been recorded the first one is gone.
C2_CacheBounded ==
  /\ Len(processed_flight_plans) <= DedupCapacity
  /\ Len(recorded) > DedupCapacity
       => ~InDeque(processed_flight_plans, recorded[Len(recorded) - DedupCapacity])

\* DedupCapacity + 1 distinct keys have been recorded: the cache is full and
\* the first key is not in it
C2_Witness ==
  /\ Len(recorded) = DedupCapacity + 1
  /\ Len(processed_flight_plans) = DedupCapacity
  /\ ~InDeque(processed_flight_plans, recorded[1])
  /\ processed_flight_plans[DedupCapacity] = recorded[DedupCapacity + 1]

\* the callsign of the last matching pass
MatchedCallsign == flight_plan.fields["callsign"].s

\* callsign is a case-insensitive extension of prefix
Extends(callsign, prefix) ==
  /\ Len(upper(prefix)) <= Len(upper(callsign))
  /\ \A k \in 1..Len(upper(prefix)) : upper(callsign)[k] = upper(prefix)[k]

Qualifying(guild_id) ==
  IF guild_id \in DOMAIN server_configs
  THEN {k \in 1..Len(server_configs[guild_id].callsign_prefixes) :
          Extends(MatchedCallsign, server_configs[guild_id].callsign_prefixes[k])}
  ELSE {}

EntriesOf(guild_id) ==
  {i \in 1..Len(matching_configs) : matching_configs[i].guild_id = guild_id}

\* the match list holds one entry per tenant with a qualifying prefix, with
\* the first qualifying prefix of the tenant, and nothing else
MatchListCorrect ==
  \A guild_id \in Guilds :
    IF Qualifying(guild_id) = {}
    THEN EntriesOf(guild_id) = {}
    ELSE /\ Cardinality(EntriesOf(guild_id)) = 1
         /\ \A i \in EntriesOf(guild_id), k \in Qualifying(guild_id) :
              /\ \A j \in Qualifying(guild_id) : k <= j
              => matching_configs[i].prefix
                   = server_configs[guild_id].callsign_prefixes[k]

\* a step of the pipeline in which a matching pass was made
MatchingPassMade ==
  passes' > passes \/ (nmsgs' > nmsgs /\ passes' > 0)

\* C3: whenever process_flight_plan builds a match list, the list has exactly
\* one entry for every tenant with a prefix the callsign extends
\* (case-insensitively), carrying the first such prefix in configured order,
\* and no entry for any other tenant.
C3_MatchList == [][MatchingPassMade => MatchListCorrect']_vars

\* a tenant with two qualifying prefixes was matched with the first of them
C3_Witness ==
  /\ passes > 0
  /\ \E guild_id \in DOMAIN server_configs :
       /\ Cardinality(Qualifying(guild_id)) >= 2
       /\ \E i \in EntriesOf(guild_id) :
            matching_configs[i].prefix = server_configs[guild_id].callsign_prefixes[1]
  /\ \E guild_id \in DOMAIN server_configs :
       /\ server_configs[guild_id].callsign_prefixes = <<>>
       /\ EntriesOf(guild_id) = {}

Attempted == {"sent", "send_error"}

\* C4: no error leaves send_flight_plan_notification, and the fan-out visits
\* every matched tenant in order whatever happened to the tenants before it:
\* when it has returned each matched tenant has its outcome, and while a send
\* is pending every tenant before it has one.
C4_FanOutIsolated ==
  /\ fan_state # "raised"
  /\ raised # "SendError"
  /\ fan_state = "returned"
       => /\ Len(fanout) = Len(fan_configs)
          /\ \A i \in 1..Len(fanout) : fanout[i].guild_id = fan_configs[i].guild_id
  /\ pc = "send"
       => /\ fan_state = "running"
          /\ Len(fanout) = idx - 1
          /\ idx <= Len(fan_configs)
          /\ \A i \in 1..Len(fanout) : fanout[i].guild_id = fan_configs[i].guild_id

\* a fan-out has returned in which the send to a tenant raised and the
\* tenant after it was sent to
C4_Witness ==
  /\ fan_state = "returned"
  /\ \E i, j \in 1..Len(fanout) :
       /\ i < j
       /\ fanout[i].outcome = "send_error"
       /\ fanout[j].outcome = "sent"

\* the optional fields: entry name, visibility flag, event attribute
OptionalFields ==
  << <<"Pilot", "show_pilot", "robloxName">>,
     <<"Aircraft", "show_aircraft", "aircraft">>,
     <<"Departure", "show_departure", "departing">>,
     <<"Arrival", "show_arrival", "arriving">>,
     <<"Flight Level", "show_flightlevel", "flightlevel">>,
     <<"Flight Rules", "show_flightrules", "flightrules">>,
     <<"Route", "show_route", "route">> >>

HasEntry(name) == \E i \in 1..Len(embed.fields) : embed.fields[i].name = name

\* the tenant's flag, with the default of an unconfigured tenant
Visible(flag) == IF render_config.has_embed THEN render_config[flag] ELSE TRUE

\* C5, as the claim states it: the embed handed to channel.send has an entry
\* for an optional field only if the tenant shows the field and the event has
\* a non-empty value for it.
C5_OnlyPresentFieldsRendered ==
  pc = "send" =>
    \A f \in 1..Len(OptionalFields) :
      HasEntry(OptionalFields[f][1])
        => /\ Visible(OptionalFields[f][2])
           /\ OptionalFields[f][3] \in DOMAIN flight_plan.fields
           /\ flight_plan.fields[OptionalFields[f][3]].s # <<>>

\* C6: once a tenant is configured, a connection loss or a failed connection
\* attempt (the monitor is in the sleep of an except clause) and a returned
\* body are always followed by a new connection attempt.
C6_Reconnects ==
  (pc \in {"cooldown", "loop"} /\ DOMAIN server_configs # {}) ~> (pc = "connect")

\* the monitor connects again after it lost a connection and slept
C6_Witness ==
  /\ pc = "connect"
  /\ since_end = "slept"
  /\ DOMAIN server_configs # {}

\* C7, as the claim states it: no connection attempt is made after the end of
\* a message loop without a sleep in between.
C7_SleepBeforeReconnect == pc = "connect" => since_end # "ended"

\* C8, as the claim states it: while a send to a matched tenant is pending the
\* monitor can take the next inbound message.
C8_IngestionNotStalled ==
  (pc = "send" /\ nmsgs < MaxMsgs) => ENABLED Receive

\* C9, as the claim states it: whenever the monitor is back at the next
\* message, every record of the payload of the last one was visited by the
\* records loop (skipped or processed), whatever the other records were.
C9_MalformedDroppedLocally == pc = "recv" => visited = total

\* the message taken by this step is an envelope of a type outside the
\* allow-list
OtherTypeTaken ==
  /\ nmsgs' = nmsgs + 1
  /\ message'.json
  /\ IsEnvelope(message'.val)
  /\ message'.val.fields["t"].s \notin {FLIGHT_PLAN, EVENT_FLIGHT_PLAN}

\* C10: a message of a type outside the allow-list changes neither the cache
\* nor the configuration, notifies nobody and leaves the monitor at the next
\* message.
C10_OtherTypesIgnored ==
  [][OtherTypeTaken =>
       /\ processed_flight_plans' = processed_flight_plans
       /\ server_configs' = server_configs
       /\ config_order' = config_order
       /\ db' = db
       /\ notified' = notified
       /\ fan_state' = "none"
       /\ pc' = "recv"]_vars

\* a message of another type was taken whose payload is a record that a
\* tenant's prefix matches and the cache does not hold
C10_Witness ==
  /\ pc = "recv"
  /\ nmsgs > 0
  /\ message.json
  /\ IsEnvelope(message.val)
  /\ message.val.fields["t"].s \notin {FLIGHT_PLAN, EVENT_FLIGHT_PLAN}
  /\ HasKey(message.val.fields["d"], "callsign")
  /\ ~InDeque(processed_flight_plans, FlightPlanId(message.val.fields["d"]))
  /\ MatchingConfigs(message.val.fields["d"].fields["callsign"].s,
                     config_order, server_configs) # <<>>

\* the tenants channel.send was called for in the last fan-out
SendsOf(guild_id) ==
  {i \in 1..Len(fanout) :
     fanout[i].guild_id = guild_id /\ fanout[i].outcome \in Attempted}

\* C11: within a fan-out no tenant gets a second channel.send, whatever the
\* outcome of the first was, and the pending send is not for a tenant that
\* already had one; and no later fan-out is made for a key that is still in
\* the cache: two fan-outs for the same key are more than DedupCapacity
\* recordings apart.
C11_SendAttemptedOnce ==
  /\ \A guild_id \in Guilds : Cardinality(SendsOf(guild_id)) <= 1
  /\ pc = "send" => SendsOf(fan_configs[idx].guild_id) = {}
  /\ \A a, b \in 1..Len(notified) :
       (a < b /\ notified[a].key = notified[b].key)
         => notified[b].at > notified[a].at + DedupCapacity

\* the send to a tenant failed, the fan-out went on to the next tenant, and
\* the same record came again while its key was cached: it was suppressed and
\* the tenant still has the one failed send
C11_Witness ==
  /\ pc = "recv"
  /\ nmsgs >= 2
  /\ IsSingleRecord(message)
  /\ total = 1 /\ visited = 1 /\ passes = 0
  /\ notified # <<>>
  /\ notified[Len(notified)].key = FlightPlanId(SingleRecord(message))
  /\ Len(fanout) >= 2
  /\ fanout[1].outcome = "send_error"
  /\ SendsOf(fanout[1].guild_id) = {1}

\* the tenant has a subscribed prefix that the callsign of the last matching
\* pass extends
SubscribedTo(guild_id) ==
  /\ guild_id \in DOMAIN subscribed
  /\ \E prefix \in subscribed[guild_id] : Extends(MatchedCallsign, prefix)

\* C12: every matching pass goes by the prefixes as the commands have left
\* them at that moment: a tenant is in the match list exactly if a prefix that
\* the table held at start or /setup has added, and /remove has not removed,
\* is extended by the callsign, and the prefix of its entry is such a prefix.
C12_ChangesTakeEffect ==
  [][MatchingPassMade =>
       \A guild_id \in Guilds :
         /\ (EntriesOf(guild_id) # {})' <=> SubscribedTo(guild_id)'
         /\ \A i \in EntriesOf(guild_id)' :
              matching_configs'[i].prefix \in subscribed'[guild_id]]_vars

\* a record was matched to a tenant whose configuration /setup created while
\* the bot was running
C12_Witness ==
  /\ passes > 0
  /\ reply = "configured"
  /\ \E i \in 1..Len(matching_configs) :
       /\ ~server_configs[matching_configs[i].guild_id].has_embed
       /\ matching_configs[i].prefix \in subscribed[matching_configs[i].guild_id]

\* a step of process_websocket_message, process_flight_plan or
\* send_flight_plan_notification: a message is taken, or a suspended fan-out
\* goes on
PipelineStep == nmsgs' = nmsgs + 1 \/ (pc = "send" /\ ncmds' = ncmds)

\* C13: no step of the pipeline changes the tenant mapping, in memory or in
\* the table: its keys, their order, destination ids, prefix lists and
\* appearance options stay as they are; once the configurations are loaded
\* every change of the mapping is the step of a command.
C13_PipelineReadsOnly ==
  [][/\ PipelineStep =>
          /\ server_configs' = server_configs
          /\ config_order' = config_order
          /\ db' = db
     /\ (pc # "new" /\ <<server_configs, config_order, db>>'
                         # <<server_configs, config_order, db>>)
          => ncmds' = ncmds + 1]_vars

\* a fan-out over two tenants has returned, with a send that failed and one
\* that did not, no command has run, and the mapping is as it was loaded
C13_Witness ==
  /\ fan_state = "returned"
  /\ ncmds = 0
  /\ Len(fanout) >= 2
  /\ \E i, j \in 1..Len(fanout) :
       fanout[i].outcome = "send_error" /\ fanout[j].outcome = "sent"
  /\ server_configs = [g \in DOMAIN db |-> ConfigOfRow(db[g])]
  /\ \E g \in DOMAIN server_configs :
       server_configs[g].callsign_prefixes # <<>>
         /\ upper(server_configs[g].callsign_prefixes[1])
              # server_configs[g].callsign_prefixes[1]

\* the payload of the last message, when it is a flight-plan envelope
Payload == message.val.fields["d"]

IsFlightPlanEnvelope(msg) ==
  msg.json /\ IsEnvelope(msg.val) /\ IsFlightPlanType(msg.val.fields["t"])

\* a value that holds records: a list, or an object with a callsign
HoldsRecords(v) == v.ty = "list" \/ HasKey(v, "callsign")

RecordsIn(v) == IF v.ty = "list" THEN v.items ELSE <<v>>

\* the wrapper keys of the payload that hold records, by position in the
\* fixed order
HoldingKeys(d) ==
  {k \in 1..Len(WrapperKeys) :
     /\ WrapperKeys[k] \in DOMAIN d.fields
     /\ HoldsRecords(d.fields[WrapperKeys[k]])}

\* the records of a payload by the priority the claim states
RecordsByPriority(d) ==
  IF d.ty = "list" THEN d.items
  ELSE IF HasKey(d, "callsign") THEN <<d>>
  ELSE IF d.ty = "dict" /\ HoldingKeys(d) # {}
       THEN RecordsIn(d.fields[WrapperKeys[
              CHOOSE k \in HoldingKeys(d) : \A j \in HoldingKeys(d) : k <= j]])
       ELSE <<>>

\* C14, as the claim states it: the records process_flight_plan takes from a
\* payload are the list itself, else the object with a callsign, else the
\* records under the first wrapper key, in the order flightPlan, data,
\* flight_plan, that holds a list or an object with a callsign, else none, and
\* nothing is raised when there are none.
C14_UnwrapByPriority ==
  (nmsgs > 0 /\ IsFlightPlanEnvelope(message)) =>
    /\ Unwrap(Payload) = RecordsByPriority(Payload)
    /\ total = Len(RecordsByPriority(Payload))
    /\ RecordsByPriority(Payload) = <<>> => raised = "none"

\* C15: the seen-check and the append of a record are one step of the monitor
\* task, and the task handles one message at a time: wherever the task is
\* suspended in process_flight_plan (the awaited send), the key of the record
\* in flight is already the newest key of the cache and no other message is
\* taken, whatever commands run meanwhile; so no key is in the cache twice.
C15_DedupSerialized ==
  /\ pc = "send" =>
       /\ processed_flight_plans # <<>>
       /\ processed_flight_plans[Len(processed_flight_plans)]
            = FlightPlanId(flight_plan)
       /\ ~ENABLED ReceiveLive
  /\ \A i, j \in 1..Len(processed_flight_plans) :
       i < j => processed_flight_plans[i] # processed_flight_plans[j]

\* a command changed the mapping while the fan-out of a record was suspended
\* and the stream had more messages to give; the record's key is in the cache
C15_Witness ==
  /\ pc = "send"
  /\ nmsgs < MaxLiveMsgs
  /\ ncmds > 0
  /\ snapshot # server_configs
  /\ InDeque(processed_flight_plans, FlightPlanId(flight_plan))

\* destination id and appearance options of a config dict
Delivery(config) == [config EXCEPT !.callsign_prefixes = <<>>]

\* C16, as the claim states it: the notification handed to a pending
\* channel.send was addressed and rendered with the tenant's destination id
\* and appearance options as they were when the record was matched, whatever
\* commands ran while the fan-out was suspended in earlier sends.
C16_FanOutSeesMatchSnapshot ==
  pc = "send" =>
    /\ Delivery(render_config) = Delivery(snapshot[fan_configs[idx].guild_id])
    /\ embed = Render(flight_plan, snapshot[fan_configs[idx].guild_id])

\* the four values the key of a record is derived from, a missing one as Absent
Composite(record) ==
  [field \in {"callsign", "robloxName", "departing", "arriving"} |->
     DictGet(record, field, Absent)]

\* the payload of the last message is a list of two records with a callsign
IsPair(msg) ==
  /\ IsFlightPlanEnvelope(msg)
  /\ msg.val.fields["d"].ty = "list"
  /\ Len(msg.val.fields["d"].items) = 2
  /\ \A i \in 1..2 : HasKey(msg.val.fields["d"].items[i], "callsign")

\* C17, as the claim states it: records that differ in callsign, pilot name,
\* departure or arrival (a missing field differing from every present one)
\* have different keys, so of two such records in an empty cache neither
\* suppresses the other: both are recorded.
C17_KeyIdentifiesComposite ==
  (nmsgs = 1 /\ pc = "recv" /\ IsPair(message)
     /\ Composite(Payload.items[1]) # Composite(Payload.items[2]))
    => /\ FlightPlanId(Payload.items[1]) # FlightPlanId(Payload.items[2])
       /\ recorded = <<FlightPlanId(Payload.items[1]), FlightPlanId(Payload.items[2])>>

\* the records of the payload of the last message
Records == Unwrap(Payload)

\* every record with a callsign that the records loop has visited has its key
\* in the cache
VisitedAreRecorded ==
  (nmsgs > 0 /\ IsFlightPlanEnvelope(message)) =>
    \A i \in 1..visited :
      HasKey(Records[i], "callsign")
        => InDeque(processed_flight_plans, FlightPlanId(Records[i]))

\* C18: when the pipeline is suspended or done, every visited record with a
\* callsign has its key in the cache, whether it matched a tenant, was sent,
\* failed or raised; and a single record that comes while its key is in the
\* cache makes no matching pass and no notification and leaves the cache as
\* it is, whatever the tenants subscribe to by then.
C18_RecordedBeforeDispatch ==
  [][PipelineStep =>
       /\ VisitedAreRecorded'
       /\ (nmsgs' = nmsgs + 1 /\ IsSingleRecord(message')
              /\ InDeque(processed_flight_plans,
                         FlightPlanId(SingleRecord(message'))))
            => /\ passes' = 0
               /\ notified' = notified
               /\ processed_flight_plans' = processed_flight_plans
               /\ pc' = "recv"]_vars

\* a record matched no tenant, then /setup subscribed a tenant to a prefix of
\* its callsign, then the record came again and was suppressed: it has never
\* been notified
C18_Witness ==
  /\ pc = "recv"
  /\ nmsgs >= 2
  /\ reply = "configured"
  /\ IsSingleRecord(message)
  /\ total = 1 /\ visited = 1 /\ passes = 0
  /\ InDeque(processed_flight_plans, FlightPlanId(SingleRecord(message)))
  /\ FlightPlanId(SingleRecord(message)) \notin NotifiedKeys
  /\ MatchingConfigs(SingleRecord(message).fields["callsign"].s,
                     config_order, server_configs) # <<>>

\* C19: the cache holds the last DedupCapacity recordings (all of them while
\* there are fewer), oldest first, and no key twice: a key that is seen again
\* is neither added nor moved, and the i-th recording leaves the cache exactly
\* when DedupCapacity further keys have been recorded after it.
C19_CacheIsInsertionOrdered ==
  LET n == Len(recorded)
      k == Len(processed_flight_plans)
  IN  /\ k = IF n < DedupCapacity THEN n ELSE DedupCapacity
      /\ \A i \in 1..k : processed_flight_plans[i] = recorded[n - k + i]
      /\ Cardinality(Elements(processed_flight_plans)) = k

\* a record came again while its key was the oldest of several in the cache:
\* it was suppressed and the key is still the oldest
C19_Witness ==
  /\ pc = "recv"
  /\ IsSingleRecord(message)
  /\ total = 1 /\ visited = 1 /\ passes = 0
  /\ Len(processed_flight_plans) >= 2
  /\ processed_flight_plans[1] = FlightPlanId(SingleRecord(message))

\* the prefix list of a tenant, empty for a guild without configuration
PrefixesOf(configs, guild_id) ==
  IF guild_id \in DOMAIN configs THEN configs[guild_id].callsign_prefixes
  ELSE <<>>

\* l without its i-th element
Without(l, i) == SubSeq(l, 1, i - 1) \o SubSeq(l, i + 1, Len(l))

\* no prefix twice, every prefix upper-cased, trimmed and of MinPrefixLen
\* characters or more, and the list holds what the commands have added and
\* not removed
IsOrderedSet(guild_id) ==
  LET l == PrefixesOf(server_configs, guild_id)
  IN  /\ Cardinality(Elements(l)) = Len(l)
      /\ \A i \in 1..Len(l) :
           /\ upper(l[i]) = l[i]
           /\ l[i][1] \notin Whitespace /\ l[i][Len(l[i])] \notin Whitespace
           /\ Len(l[i]) >= MinPrefixLen
      /\ Elements(l) = IF guild_id \in DOMAIN subscribed
                        THEN subscribed[guild_id] ELSE {}

\* the list after the step is the list before it, or that list with one new
\* prefix at its end, or that list less one prefix, the rest in place
OrderKept(guild_id) ==
  LET l == PrefixesOf(server_configs, guild_id)
      after == PrefixesOf(server_configs', guild_id)
  IN  \/ after = l
      \/ /\ Len(after) = Len(l) + 1
         /\ SubSeq(after, 1, Len(l)) = l
         /\ ~InList(l, after[Len(after)])
      \/ \E i \in 1..Len(l) : after = Without(l, i)

\* C20: starting from an empty configuration, after every /setup and /remove
\* each tenant's prefix list has no duplicate and only upper-cased, trimmed
\* prefixes of at least MinPrefixLen characters, and every command leaves the
\* prefixes that stay in their order and puts a new one last, so the list is
\* in the order of addition.
C20_PrefixesAreOrderedSet ==
  [][\A guild_id \in Guilds : IsOrderedSet(guild_id)' /\ OrderKept(guild_id)]_vars

\* a tenant was given three prefixes, typed in lower case and with white space, and
\* the middle one was removed
C20_Witness ==
  /\ reply = "removed"
  /\ \E guild_id \in DOMAIN server_configs :
       /\ Len(server_configs[guild_id].callsign_prefixes) = 2
       /\ ncmds = 4
       /\ server_configs[guild_id].callsign_prefixes
            = << <<"D","A","L">>, <<"D"," ","L">> >>

\* the appearance options a config is rendered with, defaults applied to the
\* keys the dict does not have
Appearance(config) ==
  [embed_color |-> CfgGet(config, "embed_color", IntValue(DefaultColor)),
   embed_title |-> CfgGet(config, "embed_title", DefaultTitle),
   embed_thumbnail |-> CfgGet(config, "embed_thumbnail", PyNone),
   embed_image |-> CfgGet(config, "embed_image", PyNone),
   show_callsign |-> CfgGet(config, "show_callsign", TRUE),
   show_pilot |-> CfgGet(config, "show_pilot", TRUE),
   show_aircraft |-> CfgGet(config, "show_aircraft", TRUE),
   show_departure |-> CfgGet(config, "show_departure", TRUE),
   show_arrival |-> CfgGet(config, "show_arrival", TRUE),
   show_flightlevel |-> CfgGet(config, "show_flightlevel", TRUE),
   show_flightrules |-> CfgGet(config, "show_flightrules", TRUE),
   show_route |-> CfgGet(config, "show_route", TRUE)]

\* the appearance options load_configurations gives back for a row
StoredAppearance(row) ==
  Appearance(ConfigOfRow([row EXCEPT !.callsign_prefixes = <<>>]))

\* the tenants other than guild_id are as they were, in memory and in the table
OthersUntouched(guild_id) ==
  \A other \in Guilds \ {guild_id} :
    /\ other \in DOMAIN server_configs' <=> other \in DOMAIN server_configs
    /\ other \in DOMAIN server_configs
         => server_configs'[other] = server_configs[other]
    /\ other \in DOMAIN db' <=> other \in DOMAIN db
    /\ other \in DOMAIN db => db'[other] = db[other]

\* the appearance of guild_id is as it was, in memory and as the table gives
\* it back
AppearanceKept(guild_id) ==
  /\ guild_id \in DOMAIN server_configs
       => Appearance(server_configs'[guild_id]) = Appearance(server_configs[guild_id])
  /\ guild_id \in DOMAIN db
       => StoredAppearance(db'[guild_id]) = StoredAppearance(db[guild_id])

\* the options not in passed have the same value in both
SameExcept(appearance, other, passed) ==
  \A key \in DOMAIN appearance \ passed : appearance[key] = other[key]

\* channel id, prefix list and the options not in passed are as they were
OnlyPassedChanged(guild_id, passed) ==
  guild_id \in DOMAIN server_configs =>
    /\ server_configs'[guild_id].channel_id = server_configs[guild_id].channel_id
    /\ server_configs'[guild_id].callsign_prefixes
         = server_configs[guild_id].callsign_prefixes
    /\ db'[guild_id].channel_id = db[guild_id].channel_id
    /\ db'[guild_id].callsign_prefixes = db[guild_id].callsign_prefixes
    /\ SameExcept(Appearance(server_configs'[guild_id]),
                  Appearance(server_configs[guild_id]), passed)
    /\ SameExcept(StoredAppearance(db'[guild_id]),
                  StoredAppearance(db[guild_id]), passed)

\* C21: a /setup or /remove step leaves the appearance options of its tenant
\* as they were, a /config step leaves the channel id, the prefix list and
\* every option it was not given as they were, and no command step changes
\* the configuration of another tenant.
C21_CommandsChangeWhatTheyName ==
  [][ncmds' = ncmds + 1 =>
       /\ OthersUntouched(command'.guild_id)
       /\ command'.name \in {"setup", "remove"}
            => AppearanceKept(command'.guild_id)
       /\ command'.name = "config"
            => OnlyPassedChanged(command'.guild_id, DOMAIN command'.kwargs)]_vars

\* a tenant loaded with its own colour was moved to another channel by /setup
\* and kept the colour; another tenant got a title and a hidden pilot field
\* by /config and kept its prefixes and its other flags
C21_Witness ==
  /\ reply = "updated"
  /\ DOMAIN server_configs = {1, 2}
  /\ server_configs[2].channel_id = 101
  /\ server_configs[2].embed_color = IntValue(255)
  /\ Len(server_configs[2].callsign_prefixes) = 2
  /\ server_configs[1].embed_title = PyStr(<<"T">>)
  /\ ~server_configs[1].show_pilot
  /\ server_configs[1].show_route
  /\ server_configs[1].callsign_prefixes = << <<"D","A","L">>, <<"D">> >>

\* the replies that tell the user the command was refused
ErrorReplies ==
  {"not_administrator", "invalid_prefix", "no_configuration", "not_monitored",
   "invalid_color", "invalid_thumbnail", "invalid_image", "no_parameters"}

\* the option key holds a URL that starts with neither http:// nor https://
NotHttp(kwargs, key) ==
  /\ key \in DOMAIN kwargs
  /\ kwargs[key].s # <<>>
  /\ \A scheme \in {HttpPrefix, HttpsPrefix} :
       \/ Len(kwargs[key].s) < Len(scheme)
       \/ SubSeq(kwargs[key].s, 1, Len(scheme)) # scheme

\* the colour option is passed and is no colour: no number can be read from
\* it, or the number is negative or has more than the six hex digits of the
\* colours the handler's message asks for (#00FF00)
InvalidColor(kwargs) ==
  \/ ParsedColor(kwargs) = ColorError
  \/ /\ ParsedColor(kwargs) \notin {ColorNone, ColorError}
     /\ ParsedColor(kwargs).neg \/ Len(ParsedColor(kwargs).digits) > 6

\* the command c, typed in the current state, is one that has to be refused;
\* the length of a prefix is taken as the handler takes it, from the
\* upper-cased and trimmed text
MustBeRejected(c) ==
  \/ ~c.administrator
  \/ /\ c.name = "setup"
     /\ Len(strip(upper(c.callsign_prefix))) < MinPrefixLen
  \/ /\ c.name = "remove"
     /\ \/ c.guild_id \notin DOMAIN server_configs
        \/ strip(upper(c.callsign_prefix))
             \notin Elements(server_configs[c.guild_id].callsign_prefixes)
  \/ /\ c.name = "config"
     /\ \/ c.guild_id \notin DOMAIN server_configs
        \/ InvalidColor(c.kwargs)
        \/ NotHttp(c.kwargs, "embed_thumbnail")
        \/ NotHttp(c.kwargs, "embed_image")
        \/ DOMAIN c.kwargs = {}

\* C22: a command by a non-administrator, a /setup of a prefix shorter than
\* MinPrefixLen after trimming, a /remove without configuration or of a prefix
\* that is not monitored, and a /config without configuration, with an invalid
\* colour, a URL that is not http(s) or no option is answered with an error,
\* and a command answered with an error leaves the tenants in memory, their
\* order and the table as they were.
C22_RejectedChangesNothing ==
  [][ncmds' = ncmds + 1 =>
       /\ MustBeRejected(command') => reply' \in ErrorReplies
       /\ reply' \in ErrorReplies => UNCHANGED configVars]_vars

\* what delivery and rendering read from a config
Used(config) ==
  [channel_id |-> config.channel_id,
   callsign_prefixes |-> config.callsign_prefixes,
   appearance |-> Appearance(config)]

\* C23: once the table is loaded, and after every command, the table holds a
\* row for exactly the tenants in memory, and load_configurations gives back
\* for each of them the channel id, the prefix list and the appearance
\* options that the dict in memory is rendered with.
C23_StoreMatchesMemory ==
  pc # "new" =>
    /\ DOMAIN db = DOMAIN server_configs
    /\ \A guild_id \in DOMAIN server_configs :
         Used(load_configurations(db)[guild_id]) = Used(server_configs[guild_id])

====
